---- MODULE Spec2Model ----
(***************************************************************************)
(* State-machine model of the Hill-model continuation toolkit              *)
(* (hill_model.py, saddle_finding.py).  Each function of the source is a   *)
(* group of actions over its own variables; a specification runs one       *)
(* function (and the functions it calls) and leaves the other groups idle. *)
(*                                                                         *)
(* Numbers.  Floating-point quantities are modelled on integer scales:     *)
(* a defect (residual norm) is a level 0..MaxDefect with the tolerance     *)
(* maxDefect at level 1, and NaN a separate value whose comparisons are    *)
(* all false, as in IEEE arithmetic; a point of R^n is an identifier,      *)
(* point 0 being the start of a Newton iteration.                          *)
(***************************************************************************)
EXTENDS Integers, Sequences, FiniteSets, TLC

VARIABLES
    \* ---- verify_call (hill_model.py:145-178)
    vcOwner,      \* the HillCoordinate / HillModel instance: [type, N, nParameter]
    vcCall,       \* the call in flight: [method, x, parameter] (lengths), or NoCall
    vcPc,         \* "idle" | "called" | "body" | "raised" | "returned"
    vcError,      \* the exception raised by func_wrapper, or "none"
    vcBodyArgs,   \* what the wrapped method body received, or NoCall
    \* ---- skinny_newton / full_newton (hill_model.py:71-142)
    nwFn,         \* which iteration runs: "skinny" | "full" | "none"
    nwIsVector,   \* is_vector(x0)
    nwFDim,       \* fDim = len(x0)
    nwDefect0,    \* norm(f(.)) at the value x0 has on entry (point 0)
    nwSingular0,  \* is_singular(Df(.), fDim) at that value
    nwHeap,       \* contents of the arrays: [caller |-> x0's, local |-> the copy's]
    nwXRef,       \* the array the local name x is bound to
    nwIDefect,    \* iDefect
    nwSingular,   \* is_singular(Dy, fDim) for the current Dy
    nwIIterate,   \* iIterate
    nwUpdates,    \* number of Newton updates (x -= ...) performed so far
    nwPc,         \* "idle" | "start" | "loop" | "done"
    nwResult,     \* what the function returned or raised
    \* ---- find_root (hill_model.py:52-68)
    frDiagnose,   \* the diagnose argument
    frSolution,   \* optimize.root's result object: [x, success, message]
    frPc,         \* "idle" | "start" | "polish" | "done"
    frOut,        \* what find_root returned or raised
    \* ---- HillModel.find_equilibria / radii_uniqueness_existence
    \*      (hill_model.py:1529-1652)
    feStarts,     \* number of rows of the grid X of initial conditions
    feRoots,      \* find_root(F, DF, x, diagnose=True) for the rows done so far
    feCand,       \* all_equilibria: the rounded, sorted, de-duplicated roots
    feDelta,      \* per candidate: the sign class of delta in its radius bound
    feRadii,      \* radii (max_rad per candidate, filled in index order)
    feLastRadii,  \* the pair the last radii_uniqueness_existence call returned
    feUnique,     \* unique_equilibria
    feRadii2,     \* radii2
    feUniqueIdx,  \* for each row of unique_equilibria, its index in all_equilibria
    feI,          \* i of the merge loop
    feJ,          \* j of the merge loop
    feDiscards,   \* the deletions made so far: [by, victim] (indices in all_equilibria)
    fePc,         \* "idle" | "grid" | "filter" | "radii" | "merge" | "polish" | "done"
    feResult,     \* what find_equilibria returned or raised
    \* ---- count_eq (saddle_finding.py:18-38)
    ceHillIsVector, \* is_vector(hill)
    ceHillLen,    \* len(hill) for a vector hill
    ceGridDensity, \* gridDensity
    ceSearches,   \* the find_equilibria calls made: [density, outcome]
    cePc,         \* "idle" | "search" | "retry" | "inner" | "done"
    ceResult,     \* what count_eq returned or raised
    \* ---- bisection (saddle_finding.py:83-110)
    bsMemo,       \* equilibrium counts already computed, by density and hill value
    bsLow,        \* hill0 as passed
    bsHigh,       \* hill1 as passed
    bsNSteps,     \* n_steps as passed
    n_steps,      \* n_steps after line 84-85
    hill0,
    hill1,
    nEq0,
    nEq1,
    bsI,          \* passes of the for loop started
    bsMids,       \* midpoints evaluated
    bsPc,         \* "idle" | "entry" | "count0" | "count1" | "loop" | "done"
    bsResult,     \* what bisection returned or raised
    \* ---- estimate_saddle_node (saddle_finding.py:41-80)
    snGrid,       \* hill
    snDefault,    \* gridDensity is the default gridDensity of count_eq
    hillIdx,
    numEquilibria,
    numEquilibriaInf,
    hill_for_saddle,
    equilibria_for_saddle,
    snCalls,      \* the bisection calls made: [lo, hi, steps]
    snPc,         \* "idle" | "first" | "last" | "branch" | "walk" | "whole" | "pair" | "done"
    snResult,     \* what estimate_saddle_node returned or raised
    \* ---- from_eqs_select_saddle_eq (saddle_finding.py:113-145)
    slA,          \* the first argument as passed: the rows of an equilibrium matrix
    slB,          \* the second argument as passed
    slDim,        \* the number of columns, shape[1]
    equilibria_at_0, \*
    equilibria_at_1, \*
    slI,          \* i of the matching loop
    slRemoved,    \* the deletions made: [member, removed, pool]
    slPc,         \* "idle" | "check" | "order" | "match" | "done"
    slResult,     \* what from_eqs_select_saddle_eq returned or raised
    \* ---- find_saddle_coef (saddle_finding.py:148-189)
    fcEstimate,   \* what estimate_saddle_node returned or raised
    fcHills,      \* hill_for_saddle, as find_saddle_coef holds it
    fcSeeds,      \* equilibria_for_saddle, as find_saddle_coef holds it
    SNParameters, \*
    badCandidates, \*
    fcLog,        \* the candidates consumed: [index, found, list]
    fcPc,         \* "idle" | "estimate" | "test" | "loop" | "done"
    fcResult,     \* what find_saddle_coef returned or raised
    \* ---- heat-map sweep (main_heat_map.py:52-84)
    n_sample,     \*
    swJ,          \* samples processed so far (j of the loop)
    parameter_full, \* rows appended, each the index of its sample
    lowest_hill,  \*
    bad_parameters, \*
    bad_candidates, \*
    boring_parameters, \*
    multiple_saddles, \*
    swResults,    \* what find_saddle_coef gave for each sample processed
    swPc,         \* "idle" | "loop" | "saved" | "raised"
    \* ---- associate_parameter_regionTS (create_dataset.py)
    rgAlpha,      \* the array alpha, in half units (NaN allowed)
    rgBeta,       \* the array beta, same shape as alpha
    axes_1,       \* the bin of every alpha, filled by the three masked assignments
    axes_2,       \* the bin of every beta
    matrix_region, \* the array returned
    rgPc,         \* "idle", "start", "axes_1", "axes_2", "done"
    \* ---- subsampling a dataset (create_dataset.py)
    ssAlpha,      \* the dataset's alpha, one entry per sample
    ssBeta,       \* the dataset's beta
    parameter_region, \* the dataset's region labels
    ssContainer,  \* how the caller holds parameter_region: "ndarray" or "list"
    ssCall,       \* the call made: function, size requested, region or rectangle
    ssOutcome,    \* what the call did: rows returned or exception raised
    \* ---- generate_data_from_coefs / load_dataset (create_dataset.py)
    dsName,       \* file_name passed to generate_data_from_coefs: stem and whether it ends in .npz
    optimal_coef, \* the coefficient vector passed in
    dsAssign,     \* which assign_region the caller passed
    dsData,       \* the matrix the sampler drew, one row per parameter, one column per sample
    dsRegion,     \* assign_region(data) as computed before saving
    dsFile,       \* the file on disk: its name and the archive in it
    dsLoaded,     \* what load_dataset returned
    dsAgain,      \* assign_region applied to the reloaded samples
    dsPc,         \* "idle", "start", "saved", "loaded", "done"
    \* ---- HillCoordinate.__call__ (hill_model.py)
    hcKinds,      \* how the coordinate was built: one component kind per production term
    hcTrueGamma,  \* the decay rate, whether fixed or passed in the parameter vector
    productionSign, \* the sign of each Hill component
    parameterValues, \* the K-by-4 parameter array; NaN marks a variable parameter
    productionType, \* the ordered integer partition of K
    nState,       \* nStateVariables: K, or K + 1 when there is no self edge
    hcGamma,      \* gamma as passed to the constructor: NaN when it is variable
    hcX,          \* the state vector of the call
    hcParameter,  \* the parameter vector of the call
    productionComponentValues, \* the values of the K Hill components
    summandValues, \* the sum of the component values of every summand
    hcValue,      \* the value returned
    hcPc,         \* "idle", "start", "components", "summands", "done"
    \* ---- HillModel.__init__ (hill_model.py)
    mdGamma,      \* gamma: one decay rate per coordinate, NaN when it is variable
    mdProductionIndex, \* productionIndex: per coordinate, the global indices (from 0) of its production terms
    mdKinds,      \* the component kind of every edge, by the node it comes from
    mdModel,      \* the model constructed, or the exception raised
    mdUnpacked,   \* what unpack_state and unpack_parameter returned
    mdPc,         \* "idle", "start", "built", "raised", "unpacked"
    \* ---- HillCoordinate.diff_production (hill_model.py)
    dpType,       \* productionType of the coordinate
    dpSummandValues, \* the summand values at the point of evaluation
    dpOrder,      \* diffOrder
    dpIndex,      \* diffIndex: a component (from 1), or NoIndex for None
    dpResult,     \* what the call returned or raised
    \* ---- shapes of the derivatives of a HillCoordinate (hill_model.py)
    dvMethod,     \* derivative method of the coordinate that was called ("" before a call)
    dvResult,     \* shape of the array it returned, or the error it raised
    \* ---- Hopf.__call__ (Hopf_bifurcation.py)
    hfDimension,  \* hillModel.dimension of the model the Hopf constraint was built for
    hfNParameter, \* number of parameters of that model
    hfU,          \* the vector u passed to Hopf.__call__
    hfResult,     \* what the call returned or raised
    \* ---- HillComponent construction and image (hill_model.py)
    classCall,    \* parameter index of the accessor installed on the class HillComponent under each name (-1: none)
    components,   \* the HillComponent instances constructed so far
    imCalled,     \* index of the component whose image was asked for (0: none yet)
    imParameter,  \* the variable-parameter slice passed to image
    imResult,     \* what image returned
    \* ---- parameter index maps of a HillCoordinate (hill_model.py)
    piLinearIndex, \* linear parameter index passed to parameter_to_production_index
    piPair,       \* what it returned or raised
    piBack        \* what component_to_parameter_index returned for the pair (-1 before the call)

guardVars == <<vcOwner, vcCall, vcPc, vcError, vcBodyArgs>>
newtonVars == <<nwFn, nwIsVector, nwFDim, nwDefect0, nwSingular0, nwHeap, nwXRef,
                nwIDefect, nwSingular, nwIIterate, nwUpdates, nwPc, nwResult>>

rootVars == <<frDiagnose, frSolution, frPc, frOut>>
eqVars == <<feStarts, feRoots, feCand, feDelta, feRadii, feLastRadii, feUnique,
            feRadii2, feUniqueIdx, feI, feJ, feDiscards, fePc, feResult>>

countVars == <<ceHillIsVector, ceHillLen, ceGridDensity, ceSearches, cePc, ceResult>>
bisectVars == <<bsMemo, bsLow, bsHigh, bsNSteps, n_steps, hill0, hill1, nEq0, nEq1,
                bsI, bsMids, bsPc, bsResult>>
saddleVars == <<snGrid, snDefault, hillIdx, numEquilibria, numEquilibriaInf,
                hill_for_saddle, equilibria_for_saddle, snCalls, snPc, snResult>>

selectVars == <<slA, slB, slDim, equilibria_at_0, equilibria_at_1, slI, slRemoved, slPc, slResult>>

coefVars == <<fcEstimate, fcHills, fcSeeds, SNParameters, badCandidates, fcLog, fcPc, fcResult>>

sweepVars == <<n_sample, swJ, parameter_full, lowest_hill, bad_parameters, bad_candidates, boring_parameters, multiple_saddles, swResults, swPc>>

regionVars == <<rgAlpha, rgBeta, axes_1, axes_2, matrix_region, rgPc>>

subsampleVars == <<ssAlpha, ssBeta, parameter_region, ssContainer, ssCall, ssOutcome>>

datasetVars == <<dsName, optimal_coef, dsAssign, dsData, dsRegion, dsFile, dsLoaded, dsAgain, dsPc>>

coordVars == <<hcKinds, hcTrueGamma, productionSign, parameterValues, productionType, nState, hcGamma, hcX, hcParameter, productionComponentValues, summandValues, hcValue, hcPc>>

modelVars == <<mdGamma, mdProductionIndex, mdKinds, mdModel, mdUnpacked, mdPc>>

diffProdVars == <<dpType, dpSummandValues, dpOrder, dpIndex, dpResult>>

shapeVars == <<dvMethod, dvResult>>

hopfVars == <<hfDimension, hfNParameter, hfU, hfResult>>

imageVars == <<classCall, components, imCalled, imParameter, imResult>>

indexVars == <<piLinearIndex, piPair, piBack>>

vars == <<guardVars, newtonVars, rootVars, eqVars, countVars, bisectVars, saddleVars, selectVars, coefVars, sweepVars, regionVars, subsampleVars, datasetVars, coordVars, modelVars, diffProdVars, shapeVars, hopfVars, imageVars, indexVars>>

\* what an action of one group leaves alone: the variables of all other groups
exceptGuard == <<newtonVars, rootVars, eqVars, countVars, bisectVars, saddleVars, selectVars, coefVars, sweepVars, regionVars, subsampleVars, datasetVars, coordVars, modelVars, diffProdVars, shapeVars, hopfVars, imageVars, indexVars>>
exceptNewton == <<guardVars, rootVars, eqVars, countVars, bisectVars, saddleVars, selectVars, coefVars, sweepVars, regionVars, subsampleVars, datasetVars, coordVars, modelVars, diffProdVars, shapeVars, hopfVars, imageVars, indexVars>>
exceptRoot == <<guardVars, eqVars, countVars, bisectVars, saddleVars, selectVars, coefVars, sweepVars, regionVars, subsampleVars, datasetVars, coordVars, modelVars, diffProdVars, shapeVars, hopfVars, imageVars, indexVars>>
exceptEq == <<guardVars, newtonVars, rootVars, countVars, bisectVars, saddleVars, selectVars, coefVars, sweepVars, regionVars, subsampleVars, datasetVars, coordVars, modelVars, diffProdVars, shapeVars, hopfVars, imageVars, indexVars>>
exceptCount == <<guardVars, newtonVars, rootVars, eqVars, bisectVars, saddleVars, selectVars, coefVars, sweepVars, regionVars, subsampleVars, datasetVars, coordVars, modelVars, diffProdVars, shapeVars, hopfVars, imageVars, indexVars>>
exceptBisect == <<guardVars, newtonVars, rootVars, eqVars, countVars, saddleVars, selectVars, coefVars, sweepVars, regionVars, subsampleVars, datasetVars, coordVars, modelVars, diffProdVars, shapeVars, hopfVars, imageVars, indexVars>>
exceptSaddle == <<guardVars, newtonVars, rootVars, eqVars, countVars, selectVars, coefVars, sweepVars, regionVars, subsampleVars, datasetVars, coordVars, modelVars, diffProdVars, shapeVars, hopfVars, imageVars, indexVars>>
exceptSelect == <<guardVars, newtonVars, rootVars, eqVars, countVars, bisectVars, saddleVars, coefVars, sweepVars, regionVars, subsampleVars, datasetVars, coordVars, modelVars, diffProdVars, shapeVars, hopfVars, imageVars, indexVars>>
exceptCoef == <<guardVars, newtonVars, rootVars, eqVars, countVars, bisectVars, saddleVars, selectVars, sweepVars, regionVars, subsampleVars, datasetVars, coordVars, modelVars, diffProdVars, shapeVars, hopfVars, imageVars, indexVars>>
exceptSweep == <<guardVars, newtonVars, rootVars, eqVars, countVars, bisectVars, saddleVars, selectVars, coefVars, regionVars, subsampleVars, datasetVars, coordVars, modelVars, diffProdVars, shapeVars, hopfVars, imageVars, indexVars>>
exceptRegion == <<guardVars, newtonVars, rootVars, eqVars, countVars, bisectVars, saddleVars, selectVars, coefVars, sweepVars, subsampleVars, datasetVars, coordVars, modelVars, diffProdVars, shapeVars, hopfVars, imageVars, indexVars>>
exceptSubsample == <<guardVars, newtonVars, rootVars, eqVars, countVars, bisectVars, saddleVars, selectVars, coefVars, sweepVars, regionVars, datasetVars, coordVars, modelVars, diffProdVars, shapeVars, hopfVars, imageVars, indexVars>>
exceptDataset == <<guardVars, newtonVars, rootVars, eqVars, countVars, bisectVars, saddleVars, selectVars, coefVars, sweepVars, regionVars, subsampleVars, coordVars, modelVars, diffProdVars, shapeVars, hopfVars, imageVars, indexVars>>
exceptCoord == <<guardVars, newtonVars, rootVars, eqVars, countVars, bisectVars, saddleVars, selectVars, coefVars, sweepVars, regionVars, subsampleVars, datasetVars, modelVars, diffProdVars, shapeVars, hopfVars, imageVars, indexVars>>
exceptModel == <<guardVars, newtonVars, rootVars, eqVars, countVars, bisectVars, saddleVars, selectVars, coefVars, sweepVars, regionVars, subsampleVars, datasetVars, coordVars, diffProdVars, shapeVars, hopfVars, imageVars, indexVars>>
exceptDiffProd == <<guardVars, newtonVars, rootVars, eqVars, countVars, bisectVars, saddleVars, selectVars, coefVars, sweepVars, regionVars, subsampleVars, datasetVars, coordVars, modelVars, shapeVars, hopfVars, imageVars, indexVars>>
exceptShape == <<guardVars, newtonVars, rootVars, eqVars, countVars, bisectVars, saddleVars, selectVars, coefVars, sweepVars, regionVars, subsampleVars, datasetVars, coordVars, modelVars, diffProdVars, hopfVars, imageVars, indexVars>>
exceptHopf == <<guardVars, newtonVars, rootVars, eqVars, countVars, bisectVars, saddleVars, selectVars, coefVars, sweepVars, regionVars, subsampleVars, datasetVars, coordVars, modelVars, diffProdVars, shapeVars, imageVars, indexVars>>
exceptImage == <<guardVars, newtonVars, rootVars, eqVars, countVars, bisectVars, saddleVars, selectVars, coefVars, sweepVars, regionVars, subsampleVars, datasetVars, coordVars, modelVars, diffProdVars, shapeVars, hopfVars, indexVars>>
exceptIndex == <<guardVars, newtonVars, rootVars, eqVars, countVars, bisectVars, saddleVars, selectVars, coefVars, sweepVars, regionVars, subsampleVars, datasetVars, coordVars, modelVars, diffProdVars, shapeVars, hopfVars, imageVars>>

-----------------------------------------------------------------------------
(* Generic helpers *)

RECURSIVE SumSeq(_)
SumSeq(s) == IF s = <<>> THEN 0 ELSE Head(s) + SumSeq(Tail(s))

Max2(a, b) == IF a >= b THEN a ELSE b
Min2(a, b) == IF a <= b THEN a ELSE b
Abs(a) == IF a >= 0 THEN a ELSE -a

SeqsUpTo(S, n) == UNION {[1..k -> S] : k \in 0..n}

-----------------------------------------------------------------------------
(* verify_call: the evaluation guard                                       *)

MaxDim == 2          \* largest state dimension / vector length tried
MaxPieces == 2       \* most positional parameter arguments of a model call

NoCall == [method |-> "none"]

\* the evaluation methods decorated with @verify_call
Methods == {"__call__", "dx", "diff", "dx2", "dxdiff", "diff2", "dx3",
            "dx2diff", "dxdiff2"}

OwnerTypes == {"HillCoordinate", "HillModel"}

\* HillModel.parse_parameter: ezcat of the positional parameters (a scalar
\* counts one entry, a vector its length); no parameter gives the empty vector.
\* A parameter argument is modelled by the number of entries it contributes.
parse_parameter(pieces) == IF pieces # <<>> THEN SumSeq(pieces) ELSE 0

\* the state dimension the wrapper compares against (nState / dimension)
OwnerN(owner) == owner.N

\* length of the parameter vector the wrapper compares against nParameter:
\* args[2] for a coordinate, parse_parameter(*args[2:]) for a model
ParsedLen(owner, call) ==
    IF owner.type = "HillCoordinate" THEN Head(call.parameter)
    ELSE parse_parameter(call.parameter)

\* func_wrapper's decision: which branch of the if / elif / else runs
GuardVerdict_StateOnly(owner, call) ==
    IF call.x # OwnerN(owner) THEN "state" ELSE "pass"

GuardVerdict(owner, call) ==
    IF call.x # OwnerN(owner) THEN "state"
    ELSE IF ParsedLen(owner, call) # owner.nParameter THEN "parameter"
    ELSE "pass"

GuardInit ==
    /\ vcOwner \in [type : OwnerTypes, N : 1..MaxDim, nParameter : 0..MaxDim]
    /\ vcCall = NoCall
    /\ vcPc = "idle"
    /\ vcError = "none"
    /\ vcBodyArgs = NoCall

GuardIdle ==
    /\ vcOwner = [type |-> "HillCoordinate", N |-> 1, nParameter |-> 0]
    /\ vcCall = NoCall
    /\ vcPc = "idle"
    /\ vcError = "none"
    /\ vcBodyArgs = NoCall

\* a caller invokes a decorated method with a state vector and parameters
Invoke ==
    /\ vcPc = "idle"
    /\ \E m \in Methods, lx \in 0..MaxDim :
         \E ps \in (IF vcOwner.type = "HillCoordinate"
                    THEN [1..1 -> 0..MaxDim]
                    ELSE SeqsUpTo(0..MaxDim, MaxPieces)) :
            vcCall' = [method |-> m, x |-> lx, parameter |-> ps]
    /\ vcPc' = "called"
    /\ vcError' = "none"
    /\ vcBodyArgs' = NoCall
    /\ UNCHANGED vcOwner
    /\ UNCHANGED exceptGuard

\* func_wrapper (hill_model.py:150-176)
func_wrapper ==
    /\ vcPc = "called"
    /\ LET v == GuardVerdict(vcOwner, vcCall) IN
         IF v = "pass"
         THEN /\ vcPc' = "body"
              /\ vcBodyArgs' = vcCall       \* func(*args, **kwargs)
              /\ vcError' = "none"
         ELSE /\ vcPc' = "raised"
              /\ vcError' = "IndexError"
              /\ vcBodyArgs' = NoCall
    /\ UNCHANGED <<vcOwner, vcCall>>
    /\ UNCHANGED exceptGuard

\* the wrapped method body runs to completion
MethodBody ==
    /\ vcPc = "body"
    /\ vcPc' = "returned"
    /\ UNCHANGED <<vcOwner, vcCall, vcError, vcBodyArgs>>
    /\ UNCHANGED exceptGuard

\* the caller has seen the result or the exception; the next call may start
CallOver ==
    /\ vcPc \in {"raised", "returned"}
    /\ vcPc' = "idle"
    /\ vcCall' = NoCall
    /\ vcError' = "none"
    /\ vcBodyArgs' = NoCall
    /\ UNCHANGED vcOwner
    /\ UNCHANGED exceptGuard

GuardStep ==
    \/ Invoke
    \/ func_wrapper
    \/ MethodBody
    \/ CallOver

\* C1: a decorated evaluation method raises IndexError, without running its
\* body, whenever the state length differs from the owner's state dimension
\* or the (parsed) parameter length differs from nParameter; the body runs
\* only when both match, and receives the arguments exactly as passed.
SizesMatch ==
    /\ vcCall.x = vcOwner.N
    /\ ParsedLen(vcOwner, vcCall) = vcOwner.nParameter

GuardRejectsMismatch ==
    /\ vcPc \in {"body", "returned"} => SizesMatch /\ vcBodyArgs = vcCall
    /\ vcPc = "raised" =>
          ~SizesMatch /\ vcError = "IndexError" /\ vcBodyArgs = NoCall
    /\ vcBodyArgs # NoCall => vcPc \in {"body", "returned"}

\* a model call whose state has the right size but whose parsed parameter
\* vector is too short has been rejected
GuardWitness ==
    /\ vcPc = "raised"
    /\ vcOwner.type = "HillModel"
    /\ vcCall.x = vcOwner.N
    /\ Len(vcCall.parameter) = 2
    /\ ParsedLen(vcOwner, vcCall) < vcOwner.nParameter

-----------------------------------------------------------------------------
(* skinny_newton and full_newton                                           *)

MaxPoint == 2        \* points are 0..MaxPoint; 0 is the value x0 has on entry
MaxDefect == 3       \* defect levels 0..MaxDefect
maxDefect == 1       \* the tolerance maxDefect, on the defect scale
skinnyMaxIterate == 10
fullMaxIterate == 100

NaN == -1
Points == 0..MaxPoint
Defects == (0..MaxDefect) \cup {NaN}

\* IEEE comparisons: any comparison with NaN is false
Lt(a, b) == a # NaN /\ b # NaN /\ a < b
Gt(a, b) == a # NaN /\ b # NaN /\ a > b
Le(a, b) == a # NaN /\ b # NaN /\ a <= b

NoPoint == MaxPoint + 1    \* no array / no value
Pending == [kind |-> "pending", value |-> NoPoint, ref |-> "none"]
ReturnArray(ref) == [kind |-> "point", value |-> nwHeap[ref], ref |-> ref]
ReturnNaN == [kind |-> "nan", value |-> NoPoint, ref |-> "none"]
ReturnNone == [kind |-> "None", value |-> NoPoint, ref |-> "none"]
Raise(err) == [kind |-> "raise", value |-> NoPoint, ref |-> err]

\* x = x0.copy(): x names a fresh array holding x0's contents
x0_alias == "caller"

x0_copy == "local"

\* norm(f(v)) for an array holding value v, as far as the iteration can ask:
\* v is the entry value of x0 (point 0) or the current value of x, whose
\* defect is iDefect
NormF(v) == IF v = 0 THEN nwDefect0 ELSE nwIDefect

\* the values f and Df can take at the point q the update moves x to: f is a
\* function, so a point already evaluated gives the same values again
EvalChoices(q) ==
    IF q = 0 THEN {<<nwDefect0, nwSingular0>>}
    ELSE IF q = nwHeap[nwXRef] THEN {<<nwIDefect, nwSingular>>}
    ELSE Defects \X BOOLEAN

\* skinny_newton's loop condition (line 91)
SkinnyContinues == Gt(nwIDefect, maxDefect) /\ nwIIterate < skinnyMaxIterate

\* full_newton's loop condition (line 127)
FullContinues ==
    Gt(nwIDefect, maxDefect) /\ nwIIterate < fullMaxIterate /\ ~nwSingular

\* skinny_newton's final test (line 101): the polished x is returned
SkinnyKeeps(iDefect, defectAtX0) ==
    Lt(iDefect, maxDefect) \/ Lt(iDefect, defectAtX0)

\* full_newton's final test (line 138)
Converged_Le(iDefect) == Le(iDefect, maxDefect)

Converged(iDefect) == Lt(iDefect, maxDefect)

NewtonInputs ==
    /\ nwIsVector \in BOOLEAN
    /\ nwFDim \in 1..MaxDim
    /\ nwDefect0 \in Defects
    /\ nwSingular0 \in BOOLEAN

NewtonEntry ==
    /\ nwHeap = [caller |-> 0, local |-> NoPoint]
    /\ nwXRef = "unbound"
    /\ nwIDefect = NaN
    /\ nwSingular = FALSE
    /\ nwIIterate = 0
    /\ nwUpdates = 0
    /\ nwResult = Pending

NewtonInit ==
    /\ nwFn \in {"skinny", "full"}
    /\ NewtonInputs
    /\ NewtonEntry
    /\ nwPc = "start"

NewtonIdle ==
    /\ nwFn = "none"
    /\ nwIsVector = TRUE
    /\ nwFDim = 1
    /\ nwDefect0 = 0
    /\ nwSingular0 = FALSE
    /\ NewtonEntry
    /\ nwPc = "idle"

\* lines 78-90 / 114-126: the shape test, then x = x0.copy(), y = f(x),
\* Dy = Df(x), iDefect = norm(y), iIterate = 1
NewtonStart(notImplemented) ==
    /\ nwPc = "start"
    /\ IF ~nwIsVector
       THEN /\ nwResult' = notImplemented
            /\ nwPc' = "done"
            /\ UNCHANGED <<nwHeap, nwXRef, nwIDefect, nwSingular, nwIIterate>>
       ELSE /\ nwXRef' = x0_copy
            /\ nwHeap' = [nwHeap EXCEPT ![x0_copy] = nwHeap.caller]
            /\ nwIDefect' = nwDefect0
            /\ nwSingular' = nwSingular0
            /\ nwIIterate' = 1
            /\ nwPc' = "loop"
            /\ UNCHANGED nwResult
    /\ UNCHANGED <<nwFn, nwIsVector, nwFDim, nwDefect0, nwSingular0, nwUpdates>>

\* lines 92-99 / 128-136: x -= y / Dy or x -= solve(Dy, y), written into the
\* array x names; then y, Dy and iDefect are recomputed
NewtonUpdate ==
    \E q \in Points : \E e \in EvalChoices(q) :
        /\ nwHeap' = [nwHeap EXCEPT ![nwXRef] = q]
        /\ nwIDefect' = e[1]
        /\ nwSingular' = e[2]
        /\ nwIIterate' = nwIIterate + 1
        /\ nwUpdates' = nwUpdates + 1
        /\ UNCHANGED <<nwFn, nwIsVector, nwFDim, nwDefect0, nwSingular0, nwXRef,
                       nwPc, nwResult>>

\* np.linalg.solve raises LinAlgError on an exactly singular matrix; the
\* scalar branch divides and raises nothing
SolveRaises ==
    /\ nwFDim > 1
    /\ nwSingular
    /\ nwResult' = Raise("LinAlgError")
    /\ nwPc' = "done"
    /\ UNCHANGED <<nwFn, nwIsVector, nwFDim, nwDefect0, nwSingular0, nwHeap,
                   nwXRef, nwIDefect, nwSingular, nwIIterate, nwUpdates>>

skinny_start ==
    /\ nwFn = "skinny"
    /\ NewtonStart(ReturnNaN)        \* print('not implemented yet'); return np.NAN
    /\ UNCHANGED exceptNewton

skinny_iterate ==
    /\ nwFn = "skinny"
    /\ nwPc = "loop"
    /\ SkinnyContinues
    /\ NewtonUpdate
    /\ UNCHANGED exceptNewton

skinny_solve_raises ==
    /\ nwFn = "skinny"
    /\ nwPc = "loop"
    /\ SkinnyContinues
    /\ SolveRaises
    /\ UNCHANGED exceptNewton

\* lines 101-104
skinny_return ==
    /\ nwFn = "skinny"
    /\ nwPc = "loop"
    /\ ~SkinnyContinues
    /\ nwResult' = IF SkinnyKeeps(nwIDefect, NormF(nwHeap.caller))
                   THEN ReturnArray(nwXRef)
                   ELSE ReturnArray("caller")
    /\ nwPc' = "done"
    /\ UNCHANGED <<nwFn, nwIsVector, nwFDim, nwDefect0, nwSingular0, nwHeap,
                   nwXRef, nwIDefect, nwSingular, nwIIterate, nwUpdates>>
    /\ UNCHANGED exceptNewton

full_start ==
    /\ nwFn = "full"
    /\ NewtonStart(ReturnNone)       \* print('not implemented yet'), no return
    /\ UNCHANGED exceptNewton

\* the update is reached only when is_singular(Dy, fDim) is false
full_iterate ==
    /\ nwFn = "full"
    /\ nwPc = "loop"
    /\ FullContinues
    /\ NewtonUpdate
    /\ UNCHANGED exceptNewton

\* lines 138-142
full_return ==
    /\ nwFn = "full"
    /\ nwPc = "loop"
    /\ ~FullContinues
    /\ nwResult' = IF Converged(nwIDefect)
                   THEN ReturnArray(nwXRef)
                   ELSE ReturnNaN    \* print('Newton failed to converge')
    /\ nwPc' = "done"
    /\ UNCHANGED <<nwFn, nwIsVector, nwFDim, nwDefect0, nwSingular0, nwHeap,
                   nwXRef, nwIDefect, nwSingular, nwIIterate, nwUpdates>>
    /\ UNCHANGED exceptNewton

SkinnyStep ==
    \/ skinny_start
    \/ skinny_iterate
    \/ skinny_solve_raises
    \/ skinny_return

FullStep ==
    \/ full_start
    \/ full_iterate
    \/ full_return

FullNewtonReports ==
    (nwFn = "full" /\ nwPc = "done") =>
        /\ nwResult.kind = "point" =>
              /\ Lt(nwIDefect, maxDefect)
              /\ nwResult.value = nwHeap[nwXRef]
              /\ NormF(nwResult.value) = nwIDefect
        /\ (nwIsVector /\ ~Lt(nwIDefect, maxDefect)) => nwResult.kind = "nan"
        /\ nwResult.kind \in {"point", "nan", "None"}
        /\ nwUpdates < fullMaxIterate

\* the cap of 100 iterations was reached on a regular derivative: NaN returned
FullNewtonWitness ==
    /\ nwFn = "full"
    /\ nwPc = "done"
    /\ nwIIterate = fullMaxIterate
    /\ ~nwSingular
    /\ Gt(nwIDefect, maxDefect)
    /\ nwResult.kind = "nan"

-----------------------------------------------------------------------------
(* find_root: the hybrid solver followed by the Newton polish              *)

NoSolution == [x |-> NoPoint, success |-> FALSE, message |-> "none"]
NoOut == [kind |-> "pending", x |-> NoPoint, success |-> FALSE, message |-> "none"]

SolutionObject(sol) ==
    [kind |-> "solution", x |-> sol.x, success |-> sol.success,
     message |-> sol.message]
VectorOnly(v) ==
    [kind |-> "vector", x |-> v, success |-> FALSE, message |-> "none"]
RootRaises(err) ==
    [kind |-> "raise", x |-> NoPoint, success |-> FALSE, message |-> err]

\* np.any(x != solution.x) (line 57): some entry of the two vectors differs
PolishChanged(x, solutionX) == x # solutionX

\* lines 59-61: the solver's object takes the polished point, success and note
Polished_KeepFlag(sol, x) ==
    [sol EXCEPT !.x = x, !.message = "Used skinny_newton for convergence"]

Polished(sol, x) ==
    [sol EXCEPT !.x = x, !.success = TRUE,
                !.message = "Used skinny_newton for convergence"]

RootInit ==
    /\ frDiagnose \in BOOLEAN
    /\ frSolution = NoSolution
    /\ frPc = "start"
    /\ frOut = NoOut

RootIdle ==
    /\ frDiagnose = FALSE
    /\ frSolution = NoSolution
    /\ frPc = "idle"
    /\ frOut = NoOut

\* line 55-56: optimize.root(f, initialGuess, jac=Df, method='hybr') returns a
\* vector and its own success flag; skinny_newton is entered with solution.x
\* as its x0 (the array called "caller" in the iteration, value 0)
optimize_root ==
    /\ frPc = "start"
    /\ nwPc = "idle"
    /\ \E ok \in BOOLEAN :
         frSolution' = [x |-> 0, success |-> ok, message |-> "hybr"]
    /\ nwFn' = "skinny"
    /\ nwIsVector' = TRUE
    /\ nwFDim' \in 1..MaxDim
    /\ nwDefect0' \in Defects
    /\ nwSingular0' \in BOOLEAN
    /\ nwHeap' = [caller |-> 0, local |-> NoPoint]
    /\ nwXRef' = "unbound"
    /\ nwIDefect' = NaN
    /\ nwSingular' = FALSE
    /\ nwIIterate' = 0
    /\ nwUpdates' = 0
    /\ nwResult' = Pending
    /\ nwPc' = "start"
    /\ frPc' = "polish"
    /\ UNCHANGED <<frDiagnose, frOut>>
    /\ UNCHANGED exceptRoot

\* lines 57-68
find_root_return ==
    /\ frPc = "polish"
    /\ nwPc = "done"
    /\ frOut' =
         IF nwResult.kind = "raise" THEN RootRaises(nwResult.ref)
         ELSE IF PolishChanged(nwResult.value, nwHeap.caller)
              THEN IF frDiagnose
                   THEN SolutionObject(Polished(frSolution, nwResult.value))
                   ELSE VectorOnly(nwResult.value)
              ELSE IF frDiagnose
                   THEN SolutionObject(frSolution)
                   ELSE VectorOnly(frSolution.x)
    /\ frPc' = "done"
    /\ UNCHANGED <<frDiagnose, frSolution, newtonVars>>
    /\ UNCHANGED exceptRoot

RootStep ==
    \/ optimize_root
    \/ find_root_return

\* C3: with diagnose, a polish that changed the solver's point yields the
\* result object with the polished point, success forced true and the note,
\* whatever the solver's flag; an unchanged point yields the solver's object
\* as it was; without diagnose only the corresponding vector is returned.
FindRootForcesSuccess ==
    (frPc = "done" /\ frOut.kind # "raise") =>
        /\ nwResult.kind = "point"
        /\ frOut.x = nwResult.value
        /\ ~frDiagnose => frOut.kind = "vector"
        /\ (frDiagnose /\ nwResult.value # 0) =>
              /\ frOut.kind = "solution"
              /\ frOut.success
              /\ frOut.message = "Used skinny_newton for convergence"
        /\ (frDiagnose /\ nwResult.value = 0) =>
              /\ frOut.kind = "solution"
              /\ frOut.success = frSolution.success
              /\ frOut.message = "hybr"

\* the solver reported failure, the polish moved the point: success is forced
FindRootWitness ==
    /\ frPc = "done"
    /\ frDiagnose
    /\ ~frSolution.success
    /\ nwResult.kind = "point"
    /\ nwResult.value # 0
    /\ frOut.success

-----------------------------------------------------------------------------
(* HillModel.find_equilibria and radii_uniqueness_existence                *)
(*                                                                         *)
(* Equilibria are modelled in one state dimension.  A root is an integer   *)
(* number of half rounding units (0 stands for a root that is not          *)
(* positive); rounding to uniqueRootDigits maps it to a whole number of    *)
(* rounding units, and distances and radii are measured in those units.    *)

MaxStarts == 2       \* most rows of the grid X
MaxRaw == 4          \* roots are 0..MaxRaw half units
MaxCand == 4         \* most candidates entering the merge pass
MaxPos == 4          \* candidates entering the merge pass lie in 0..MaxPos
MaxRad == 3          \* largest radius (1 + sqrt(delta)) / (2 * Z2_bound) tried
RadCap == 2          \* the cap 0.1 on max_rad, in rounding units

DeltaKinds == {"neg", "nan", "pos"}

\* np.round: round half to even; raw counts half units
Round(raw) ==
    IF raw % 2 = 0 THEN raw \div 2
    ELSE IF ((raw - 1) \div 2) % 2 = 0 THEN (raw - 1) \div 2
    ELSE (raw + 1) \div 2

\* eq_is_positive (line 1587-1589)
eq_is_positive(raw) == raw > 0

SetMin(S) == CHOOSE a \in S : \A b \in S : a <= b

\* np.unique(..., axis=0): the distinct rows in ascending order
RECURSIVE np_unique(_)
np_unique(S) ==
    IF S = {} THEN <<>>
    ELSE <<SetMin(S)>> \o np_unique(S \ {SetMin(S)})

\* np.delete(a, j, 0), j counted from 0
np_delete(a, j) == [k \in 1..(Len(a) - 1) |-> IF k <= j THEN a[k] ELSE a[k + 1]]

\* np.linalg.norm(equilibrium1 - equilibrium2)
Dist(a, b) == Abs(a - b)

\* lines 1559-1565: the radii returned for a delta of the given sign class;
\* rawMax and rawMin stand for (1 + sqrt(delta)) / (2 Z2_bound) and
\* (1 - sqrt(delta)) / (2 Z2_bound), computed only when delta >= 0
radii_NoGuard(delta, rawMax, rawMin) == <<Min2(rawMax, RadCap), rawMin>>

radii_uniqueness_existence(delta, rawMax, rawMin) ==
    IF delta = "neg" \/ delta = "nan" THEN <<0, 0>>
    ELSE <<Min2(rawMax, RadCap), rawMin>>

\* line 1643: the two candidates are merged
Merges(d, radius1, radius2) == d < Max2(radius1, radius2)

\* line 1617: the roots kept by the filter
Kept_AnyPositive(roots) ==
    {k \in 1..Len(roots) : eq_is_positive(roots[k].x)}

Kept(roots) ==
    {k \in 1..Len(roots) : roots[k].success /\ eq_is_positive(roots[k].x)}

NoneResult == [kind |-> "None", rows |-> <<>>]
EqPending == [kind |-> "pending", rows |-> <<>>]
EqRaises == [kind |-> "raise", rows |-> <<>>]
RowStack(rows) == [kind |-> "rows", rows |-> rows]

EqEntry ==
    /\ feRoots = <<>>
    /\ feCand = <<>>
    /\ feDelta = <<>>
    /\ feRadii = <<>>
    /\ feLastRadii = <<0, 0>>
    /\ feUnique = <<>>
    /\ feRadii2 = <<>>
    /\ feUniqueIdx = <<>>
    /\ feI = 0
    /\ feJ = 0
    /\ feDiscards = <<>>
    /\ feResult = EqPending

EqInit ==
    /\ feStarts \in 1..MaxStarts
    /\ EqEntry
    /\ fePc = "grid"

EqIdle ==
    /\ feStarts = 0
    /\ EqEntry
    /\ fePc = "idle"

\* the state at line 1626 with more than one candidate: all_equilibria is
\* sorted and free of duplicates, as np.unique leaves it
StrictlyIncreasing(s) == \A k \in 1..(Len(s) - 1) : s[k] < s[k + 1]

MergeInit ==
    /\ feStarts = 0
    /\ feRoots = <<>>
    /\ \E n \in 2..MaxCand :
         feCand \in {s \in [1..n -> 0..MaxPos] : StrictlyIncreasing(s)}
    /\ feDelta = <<>>
    /\ feRadii = <<>>
    /\ feLastRadii = <<0, 0>>
    /\ feUnique = feCand
    /\ feRadii2 = <<>>
    /\ feUniqueIdx = [k \in 1..Len(feCand) |-> k - 1]
    /\ feI = 0
    /\ feJ = 0
    /\ feDiscards = <<>>
    /\ feResult = EqPending
    /\ fePc = "radii"

\* lines 1616-1619, one row x of X: find_root returns a result object
grid_find_root ==
    /\ fePc = "grid"
    /\ Len(feRoots) < feStarts
    /\ \E ok \in BOOLEAN, raw \in 0..MaxRaw :
         feRoots' = Append(feRoots, [x |-> raw, success |-> ok])
    /\ UNCHANGED <<feStarts, feCand, feDelta, feRadii, feLastRadii, feUnique,
                   feRadii2, feUniqueIdx, feI, feJ, feDiscards, fePc, feResult>>
    /\ UNCHANGED exceptEq

\* a root finder call or a matrix inversion raises: the search is abandoned
eq_call_raises ==
    /\ \/ fePc = "grid" /\ Len(feRoots) < feStarts
       \/ fePc = "radii" /\ Len(feRadii) < Len(feCand)
       \/ fePc = "polish"
    /\ feResult' = EqRaises
    /\ fePc' = "done"
    /\ UNCHANGED <<feStarts, feRoots, feCand, feDelta, feRadii, feLastRadii,
                   feUnique, feRadii2, feUniqueIdx, feI, feJ, feDiscards>>
    /\ UNCHANGED exceptEq

\* lines 1617-1629 and 1651-1652: filter, round, de-duplicate
filter_and_round ==
    /\ fePc = "grid"
    /\ Len(feRoots) = feStarts
    /\ LET solns == Kept(feRoots)
           equilibria == np_unique({Round(feRoots[k].x) : k \in solns})
       IN  IF solns = {}
           THEN /\ feResult' = NoneResult
                /\ fePc' = "done"
                /\ UNCHANGED <<feCand, feUnique, feUniqueIdx>>
           ELSE /\ feCand' = equilibria
                /\ feUnique' = equilibria
                /\ feUniqueIdx' = [k \in 1..Len(equilibria) |-> k - 1]
                /\ fePc' = IF Len(equilibria) > 1 THEN "radii" ELSE "polish"
                /\ UNCHANGED feResult
    /\ UNCHANGED <<feStarts, feRoots, feDelta, feRadii, feLastRadii, feRadii2,
                   feI, feJ, feDiscards>>
    /\ UNCHANGED exceptEq

\* lines 1630-1633, one candidate: radii[i] = max_rad
compute_radius ==
    /\ fePc = "radii"
    /\ Len(feRadii) < Len(feCand)
    /\ \E delta \in DeltaKinds, rawMax \in 1..MaxRad :
         \E rawMin \in 0..rawMax :
            LET r == radii_uniqueness_existence(delta, rawMax, rawMin) IN
            /\ feDelta' = Append(feDelta, delta)
            /\ feRadii' = Append(feRadii, r[1])
            /\ feLastRadii' = r
    /\ UNCHANGED <<feStarts, feRoots, feCand, feUnique, feRadii2, feUniqueIdx,
                   feI, feJ, feDiscards, fePc, feResult>>
    /\ UNCHANGED exceptEq

\* line 1635-1639: radii2 = radii, and the first i, j of the merge loops
merge_begin ==
    /\ fePc = "radii"
    /\ Len(feRadii) = Len(feCand)
    /\ feRadii2' = feRadii
    /\ feI' = 0
    /\ feJ' = 1
    /\ feLastRadii' = <<0, 0>>     \* max_rad, min_rad are not read again
    /\ fePc' = "merge"
    /\ UNCHANGED <<feStarts, feRoots, feCand, feDelta, feRadii, feUnique,
                   feUniqueIdx, feDiscards, feResult>>
    /\ UNCHANGED exceptEq

\* lines 1640-1648, one pass of the while loop
merge_compare ==
    /\ fePc = "merge"
    /\ feI < Len(feCand)
    /\ feJ < Len(feRadii2)
    /\ LET equilibrium1 == feCand[feI + 1]
           radius1 == feRadii[feI + 1]
           equilibrium2 == feUnique[feJ + 1]
           radius2 == feRadii2[feJ + 1]
       IN  IF Merges(Dist(equilibrium1, equilibrium2), radius1, radius2)
           THEN /\ feUnique' = np_delete(feUnique, feJ)
                /\ feRadii2' = np_delete(feRadii2, feJ)
                /\ feUniqueIdx' = np_delete(feUniqueIdx, feJ)
                /\ feDiscards' = Append(feDiscards,
                                        [by |-> feI, victim |-> feUniqueIdx[feJ + 1]])
                /\ UNCHANGED feJ
           ELSE /\ feJ' = feJ + 1
                /\ UNCHANGED <<feUnique, feRadii2, feUniqueIdx, feDiscards>>
    /\ UNCHANGED <<feStarts, feRoots, feCand, feDelta, feRadii, feLastRadii, feI,
                   fePc, feResult>>
    /\ UNCHANGED exceptEq

\* lines 1636-1639: the while loop is over, the for loop takes the next i
merge_next ==
    /\ fePc = "merge"
    /\ feI < Len(feCand)
    /\ feJ >= Len(feRadii2)
    /\ feI' = feI + 1
    /\ feJ' = feI + 2
    /\ UNCHANGED <<feStarts, feRoots, feCand, feDelta, feRadii, feLastRadii,
                   feUnique, feRadii2, feUniqueIdx, feDiscards, fePc, feResult>>
    /\ UNCHANGED exceptEq

\* line 1649: equilibria = unique_equilibria
merge_end ==
    /\ fePc = "merge"
    /\ feI = Len(feCand)
    /\ fePc' = "polish"
    /\ UNCHANGED <<feStarts, feRoots, feCand, feDelta, feRadii, feLastRadii,
                   feUnique, feRadii2, feUniqueIdx, feI, feJ, feDiscards, feResult>>
    /\ UNCHANGED exceptEq

\* line 1650: np.row_stack([find_root(F, DF, x) for x in equilibria])
repolish ==
    /\ fePc = "polish"
    /\ feStarts > 0
    /\ \E xs \in [1..Len(feUnique) -> 0..MaxRaw] :
         feResult' = RowStack([k \in 1..Len(feUnique) |->
                                  [seed |-> feUnique[k], x |-> xs[k]]])
    /\ fePc' = "done"
    /\ UNCHANGED <<feStarts, feRoots, feCand, feDelta, feRadii, feLastRadii,
                   feUnique, feRadii2, feUniqueIdx, feI, feJ, feDiscards>>
    /\ UNCHANGED exceptEq

MergeStep ==
    \/ compute_radius
    \/ merge_begin
    \/ merge_compare
    \/ merge_next
    \/ merge_end

EqStep ==
    \/ grid_find_root
    \/ eq_call_raises
    \/ filter_and_round
    \/ MergeStep
    \/ repolish

\* the grid starts whose root converged and is strictly positive
ConvergedPositive == {k \in 1..Len(feRoots) : feRoots[k].success /\ feRoots[k].x > 0}

\* the values those roots round to
KeptSeeds == {Round(feRoots[k].x) : k \in ConvergedPositive}

EqReturned == fePc = "done" /\ feStarts > 0 /\ feResult.kind # "raise"

(* C5: when find_equilibria returns, it returns None exactly when no grid  *)
(* start gave a root that converged and is positive; otherwise it returns  *)
(* at least one row, and every row is the re-polished value of a rounded   *)
(* root that converged and is positive: an attempt that failed or is not   *)
(* positive contributes no row.                                            *)
FindEquilibriaFilters ==
    EqReturned =>
        /\ feResult.kind \in {"None", "rows"}
        /\ (feResult.kind = "None") <=> (ConvergedPositive = {})
        /\ feResult.kind = "rows" =>
              /\ Len(feResult.rows) >= 1
              /\ \A k \in 1..Len(feResult.rows) : feResult.rows[k].seed \in KeptSeeds

\* a search that returned rows although some attempt failed at a value no
\* kept root rounds to
FindEquilibriaWitness ==
    /\ EqReturned
    /\ feResult.kind = "rows"
    /\ \E k \in 1..Len(feRoots) :
         /\ ~feRoots[k].success
         /\ eq_is_positive(feRoots[k].x)
         /\ Round(feRoots[k].x) \notin KeptSeeds

ZeroByDelta(c) == feDelta[c + 1] \in {"neg", "nan"}

DiscardEvents == {feDiscards[k] : k \in 1..Len(feDiscards)}

\* the distance and the two radii of the comparison that made a deletion
EventDist(e) == Dist(feCand[e.by + 1], feCand[e.victim + 1])

Survivors == {feUniqueIdx[k] : k \in 1..Len(feUniqueIdx)}

InRange(a, b) == Merges(Dist(feCand[a + 1], feCand[b + 1]), feRadii[a + 1], feRadii[b + 1])

(* C7: once the merge pass is over, no two surviving candidates are closer *)
(* than the larger of their max-radii, every discarded candidate lies      *)
(* within that distance of an earlier survivor, and no candidate that was  *)
(* itself discarded caused a discard.                                      *)
MergePassContract ==
    fePc = "polish" =>
        /\ \A a, b \in Survivors : a # b => ~InRange(a, b)
        /\ \A e \in DiscardEvents :
              \E s \in Survivors : s < e.victim /\ InRange(s, e.victim)
        /\ \A e \in DiscardEvents : e.by \in Survivors

-----------------------------------------------------------------------------
(* count_eq                                                                *)

MaxEq == 4           \* most equilibria a search finds
MaxDensity == 3      \* gridDensity is 1..MaxDensity
MaxVec == 2          \* longest vector hill
defaultGridDensity == 10

\* what HillModel.find_equilibria gives back: None, a matrix of n >= 1 rows,
\* or an exception of one of its calls
SearchNone == [kind |-> "None", rows |-> 0]
SearchRows(n) == [kind |-> "rows", rows |-> n]
SearchRaises == [kind |-> "raise", rows |-> 0]
SearchOutcomes == {SearchNone, SearchRaises} \cup {SearchRows(n) : n \in 1..MaxEq}

CountPending == [kind |-> "pending", count |-> 0, rows |-> 0, err |-> "none"]
CountPair(n, rows) == [kind |-> "pair", count |-> n, rows |-> rows, err |-> "none"]
CountVector(n) == [kind |-> "countVector", count |-> n, rows |-> 0, err |-> "none"]
CountRaises(e) == [kind |-> "raise", count |-> 0, rows |-> 0, err |-> e]

\* lines 28-31 and 36-38: np.shape(eq)[0], eq; np.shape(None) is the empty tuple
shape_and_eq(search) ==
    IF search.kind = "rows" THEN CountPair(search.rows, search.rows)
    ELSE IF search.kind = "None" THEN CountRaises("IndexError")
    ELSE CountRaises("LinAlgError")

\* lines 27-38: the result of count_eq for a scalar hill, given what the search
\* at gridDensity and the search at 2 * gridDensity give
count_eq(first, second) ==
    IF first.kind = "None" THEN shape_and_eq(second) ELSE shape_and_eq(first)

CountResults == {count_eq(s, t) : s, t \in SearchOutcomes}

CountInit ==
    /\ ceHillIsVector \in BOOLEAN
    /\ ceHillLen \in IF ceHillIsVector THEN 0..MaxVec ELSE {0}
    /\ ceGridDensity \in 1..MaxDensity
    /\ ceSearches = <<>>
    /\ cePc = "search"
    /\ ceResult = CountPending

CountIdle ==
    /\ ceHillIsVector = FALSE
    /\ ceHillLen = 0
    /\ ceGridDensity = 0
    /\ ceSearches = <<>>
    /\ cePc = "idle"
    /\ ceResult = CountPending

\* lines 20-25: a vector hill
count_vector ==
    /\ cePc = "search"
    /\ ceHillIsVector
    /\ IF ceHillLen = 0
       THEN /\ ceResult' = CountVector(0)
            /\ cePc' = "done"
            /\ UNCHANGED ceSearches
       ELSE \* count_eq(f, hill[0], p) runs at the default density, and its pair
            \* cannot be stored in the empty list equilibria
            /\ \E s, t \in SearchOutcomes :
                 /\ ceSearches' =
                      IF s.kind = "None"
                      THEN <<[density |-> defaultGridDensity, outcome |-> s],
                             [density |-> 2 * defaultGridDensity, outcome |-> t]>>
                      ELSE <<[density |-> defaultGridDensity, outcome |-> s]>>
                 /\ ceResult' = IF count_eq(s, t).kind = "raise" THEN count_eq(s, t)
                                ELSE CountRaises("IndexError")
            /\ cePc' = "done"
    /\ UNCHANGED <<ceHillIsVector, ceHillLen, ceGridDensity>>
    /\ UNCHANGED exceptCount

\* line 27
count_search ==
    /\ cePc = "search"
    /\ ~ceHillIsVector
    /\ \E s \in SearchOutcomes :
         ceSearches' = <<[density |-> ceGridDensity, outcome |-> s]>>
    /\ cePc' = "retry"
    /\ UNCHANGED <<ceHillIsVector, ceHillLen, ceGridDensity, ceResult>>
    /\ UNCHANGED exceptCount

\* line 33
count_search_again ==
    /\ cePc = "retry"
    /\ ceSearches[1].outcome.kind = "None"
    /\ Len(ceSearches) = 1
    /\ \E t \in SearchOutcomes :
         ceSearches' = Append(ceSearches, [density |-> 2 * ceGridDensity, outcome |-> t])
    /\ UNCHANGED <<ceHillIsVector, ceHillLen, ceGridDensity, cePc, ceResult>>
    /\ UNCHANGED exceptCount

\* lines 28-31 and 36-38
count_return ==
    /\ cePc = "retry"
    /\ ceSearches[1].outcome.kind = "None" => Len(ceSearches) = 2
    /\ ceResult' = count_eq(ceSearches[1].outcome, ceSearches[Len(ceSearches)].outcome)
    /\ cePc' = "done"
    /\ UNCHANGED <<ceHillIsVector, ceHillLen, ceGridDensity, ceSearches>>
    /\ UNCHANGED exceptCount

CountStep ==
    \/ count_vector
    \/ count_search
    \/ count_search_again
    \/ count_return

(* C8: for a scalar hill, count_eq searches at gridDensity and, only if    *)
(* that search returns None, once more at 2 * gridDensity; whatever the    *)
(* searches return, it returns a pair whose matrix has at least one row    *)
(* and whose count is the number of rows.                                  *)
CountEqReturnsPair ==
    (cePc = "done" /\ ~ceHillIsVector
        /\ \A k \in 1..Len(ceSearches) : ceSearches[k].outcome.kind # "raise") =>
        /\ ceSearches[1].density = ceGridDensity
        /\ Len(ceSearches) = IF ceSearches[1].outcome.kind = "None" THEN 2 ELSE 1
        /\ Len(ceSearches) = 2 => ceSearches[2].density = 2 * ceGridDensity
        /\ ceResult.kind = "pair"
        /\ ceResult.rows >= 1
        /\ ceResult.count = ceResult.rows

-----------------------------------------------------------------------------
(* bisection and from_eqs_select_saddle_eq                                 *)
(*                                                                         *)
(* Hill values passed in are whole numbers 1..MaxHill.  Inside, a hill     *)
(* value is a whole number of sub-units, HillUnit to the unit, so that the *)
(* midpoints the loop takes are exact (MaxHill <= HillUnit).  The number   *)
(* of equilibria found at a hill value and a grid density is a function of *)
(* the two: bsMemo keeps the values already computed.                      *)

MaxHill == 8         \* hill values passed in are 1..MaxHill
HalvingBits == 3     \* binary digits kept below the unit
MaxSteps == 3        \* largest n_steps passed to bisection on its own

HillUnit == 2 ^ HalvingBits

NoCount == [k \in {} |-> 0]

\* the results count_eq may give for a hill value at a density
CountChoices(density, hill) ==
    IF <<density, hill>> \in DOMAIN bsMemo
    THEN {CountPair(bsMemo[<<density, hill>>], bsMemo[<<density, hill>>])}
    ELSE CountResults

Remember(density, hill, c) ==
    IF c.kind = "pair" /\ <<density, hill>> \notin DOMAIN bsMemo
    THEN [k \in DOMAIN bsMemo \cup {<<density, hill>>} |->
             IF k = <<density, hill>> THEN c.count ELSE bsMemo[k]]
    ELSE bsMemo

BisectPending == [kind |-> "pending", hill |-> 0, seed |-> <<>>, err |-> "none"]
BisectPair(h, s) == [kind |-> "pair", hill |-> h, seed |-> <<s>>, err |-> "none"]
BisectRaises(e) == [kind |-> "raise", hill |-> 0, seed |-> <<>>, err |-> e]

\* lines 118-139, for the equilibria found at hill values a and b, na and nb
\* rows: warnings is the module imported by hill_model, and calling it raises
\* TypeError; otherwise the rows of the longer matrix left unmatched are
\* returned
SelectSeed(a, na, b, nb) == [kind |-> "seed", lo |-> a, hi |-> b, rows |-> Abs(na - nb)]
SelectRaises == [kind |-> "raise", lo |-> 0, hi |-> 0, rows |-> 0]

from_eqs_select_saddle_eq(a, na, b, nb) ==
    IF na = nb \/ Abs(na - nb) > 2 THEN SelectRaises
    ELSE SelectSeed(a, na, b, nb)

\* line 103 and 110: return hill, from_eqs_select_saddle_eq(...)
ReturnWithSeed(h, a, na, b, nb) ==
    IF from_eqs_select_saddle_eq(a, na, b, nb).kind = "raise"
    THEN BisectRaises("TypeError")
    ELSE BisectPair(h, from_eqs_select_saddle_eq(a, na, b, nb))

\* lines 84-85
FixSteps(n) == IF n = 0 THEN 1 ELSE n

BisectEntry(lo, hi, steps) ==
    /\ bsLow' = lo
    /\ bsHigh' = hi
    /\ bsNSteps' = steps
    /\ n_steps' = steps
    /\ hill0' = lo
    /\ hill1' = hi
    /\ nEq0' = 0
    /\ nEq1' = 0
    /\ bsI' = 0
    /\ bsMids' = 0
    /\ bsPc' = "entry"
    /\ bsResult' = BisectPending

BisectInit ==
    /\ bsMemo = NoCount
    /\ \E lo \in 1..MaxHill, hi \in 1..MaxHill :
         /\ lo <= hi
         /\ bsLow = lo * HillUnit
         /\ bsHigh = hi * HillUnit
    /\ bsNSteps \in -1..MaxSteps
    /\ n_steps = bsNSteps
    /\ hill0 = bsLow
    /\ hill1 = bsHigh
    /\ nEq0 = 0
    /\ nEq1 = 0
    /\ bsI = 0
    /\ bsMids = 0
    /\ bsPc = "entry"
    /\ bsResult = BisectPending

BisectIdle ==
    /\ bsMemo = NoCount
    /\ bsLow = 0
    /\ bsHigh = 0
    /\ bsNSteps = 0
    /\ n_steps = 0
    /\ hill0 = 0
    /\ hill1 = 0
    /\ nEq0 = 0
    /\ nEq1 = 0
    /\ bsI = 0
    /\ bsMids = 0
    /\ bsPc = "idle"
    /\ bsResult = BisectPending

\* lines 84-85
bisect_fix_steps ==
    /\ bsPc = "entry"
    /\ n_steps' = FixSteps(n_steps)
    /\ bsPc' = "count0"
    /\ UNCHANGED <<bsMemo, bsLow, bsHigh, bsNSteps, hill0, hill1, nEq0, nEq1, bsI,
                   bsMids, bsResult>>
    /\ UNCHANGED exceptBisect

\* line 86
bisect_count0 ==
    /\ bsPc = "count0"
    /\ \E c \in CountChoices("default", hill0) :
         /\ bsMemo' = Remember("default", hill0, c)
         /\ IF c.kind = "raise"
            THEN /\ bsResult' = BisectRaises(c.err)
                 /\ bsPc' = "done"
                 /\ UNCHANGED nEq0
            ELSE /\ nEq0' = c.count
                 /\ bsPc' = "count1"
                 /\ UNCHANGED bsResult
    /\ UNCHANGED <<bsLow, bsHigh, bsNSteps, n_steps, hill0, hill1, nEq1, bsI, bsMids>>
    /\ UNCHANGED exceptBisect

\* line 87
bisect_count1 ==
    /\ bsPc = "count1"
    /\ \E c \in CountChoices("default", hill1) :
         /\ bsMemo' = Remember("default", hill1, c)
         /\ IF c.kind = "raise"
            THEN /\ bsResult' = BisectRaises(c.err)
                 /\ bsPc' = "done"
                 /\ UNCHANGED nEq1
            ELSE /\ nEq1' = c.count
                 /\ bsPc' = "loop"
                 /\ UNCHANGED bsResult
    /\ UNCHANGED <<bsLow, bsHigh, bsNSteps, n_steps, hill0, hill1, nEq0, bsI, bsMids>>
    /\ UNCHANGED exceptBisect

\* the low endpoint taken for the midpoint
Midpoint_Low(h0, h1) == h0

\* line 90: hill_middle = (hill0 + hill1) / 2, exact in sub-units
Midpoint(h0, h1) == (h0 + h1) \div 2

\* lines 88-103: one pass of the loop that evaluates the midpoint
bisect_midpoint ==
    /\ bsPc = "loop"
    /\ bsI < n_steps
    /\ hill1 - hill0 > HillUnit
    /\ LET hill_middle == Midpoint(hill0, hill1) IN
       \E c \in CountChoices("default", hill_middle) :
         /\ bsMemo' = Remember("default", hill_middle, c)
         /\ bsI' = bsI + 1
         /\ bsMids' = bsMids + 1
         /\ IF c.kind = "raise"
            THEN /\ bsResult' = BisectRaises(c.err)
                 /\ bsPc' = "done"
                 /\ UNCHANGED <<hill0, hill1, nEq0, nEq1>>
            ELSE IF c.count = nEq0
            THEN /\ hill0' = hill_middle
                 /\ nEq0' = c.count
                 /\ UNCHANGED <<hill1, nEq1, bsPc, bsResult>>
            ELSE IF c.count = nEq1
            THEN /\ hill1' = hill_middle
                 /\ nEq1' = c.count
                 /\ UNCHANGED <<hill0, nEq0, bsPc, bsResult>>
            ELSE /\ bsResult' = ReturnWithSeed(hill_middle, hill0, nEq0,
                                               hill_middle, c.count)
                 /\ bsPc' = "done"
                 /\ UNCHANGED <<hill0, hill1, nEq0, nEq1>>
    /\ UNCHANGED <<bsLow, bsHigh, bsNSteps, n_steps>>
    /\ UNCHANGED exceptBisect

\* lines 88-89 and 104-110: the loop is over, or the gap is not above 1
bisect_finish ==
    /\ bsPc = "loop"
    /\ bsI >= n_steps \/ ~(hill1 - hill0 > HillUnit)
    /\ LET hill == IF nEq0 > nEq1 THEN hill0 ELSE hill1 IN
       bsResult' = ReturnWithSeed(hill, hill0, nEq0, hill1, nEq1)
    /\ bsPc' = "done"
    /\ UNCHANGED <<bsMemo, bsLow, bsHigh, bsNSteps, n_steps, hill0, hill1, nEq0,
                   nEq1, bsI, bsMids>>
    /\ UNCHANGED exceptBisect

BisectStep ==
    \/ bisect_fix_steps
    \/ bisect_count0
    \/ bisect_count1
    \/ bisect_midpoint
    \/ bisect_finish

(* C10: bisection evaluates at most nSteps midpoints and returns a hill    *)
(* value in [hillLow, hillHigh] with a seed: a midpoint, with the seed     *)
(* matched from the low endpoint and the midpoint, when the midpoint's     *)
(* count equals neither endpoint's count; otherwise the current endpoint   *)
(* with the larger count, with the seed matched from the two current       *)
(* endpoints.                                                              *)
BisectionContract ==
    (bsPc = "done" /\ bsResult.err \notin {"IndexError", "LinAlgError"}) =>
        /\ bsResult.kind = "pair"
        /\ bsMids <= bsNSteps
        /\ bsLow <= bsResult.hill /\ bsResult.hill <= bsHigh
        /\ bsResult.seed[1].lo = hill0
        /\ \/ /\ bsResult.hill = (hill0 + hill1) \div 2
              /\ bsResult.seed[1].hi = bsResult.hill
              /\ bsMemo[<<"default", bsResult.hill>>] \notin {nEq0, nEq1}
           \/ /\ bsResult.hill = IF nEq0 > nEq1 THEN hill0 ELSE hill1
              /\ bsResult.seed[1].hi = hill1

\* C29: while bisection is in its loop, after every completed iteration,
\* hill0 < hill1, [hill0, hill1] lies in the original interval and has its
\* width halved once per iteration, and the counts kept for the two current
\* endpoints are the counts found at the two original endpoints
BisectionLoopInvariant ==
    (bsPc = "loop" /\ bsI >= 1) =>
        /\ hill0 < hill1
        /\ bsLow <= hill0 /\ hill1 <= bsHigh
        /\ (hill1 - hill0) * 2 ^ bsI = bsHigh - bsLow
        /\ nEq0 = bsMemo[<<"default", bsLow>>]
        /\ nEq1 = bsMemo[<<"default", bsHigh>>]
        /\ nEq0 = bsMemo[<<"default", hill0>>]
        /\ nEq1 = bsMemo[<<"default", hill1>>]

\* two iterations done, each endpoint replaced once, the counts still differ
BisectionLoopWitness ==
    /\ bsPc = "loop"
    /\ bsI = 2
    /\ bsLow < hill0 /\ hill1 < bsHigh
    /\ nEq0 # nEq1

-----------------------------------------------------------------------------
(* estimate_saddle_node                                                    *)

MaxGrid == 3         \* longest hill grid

\* the density at which estimate_saddle_node counts
GridDensityClass == IF snDefault THEN "default" ELSE "given"

\* line 57: int(np.ceil((hill[-1] - hill[0]) / 5)), gap in whole units
WholeRangeSteps(gap) == (gap + 4) \div 5

\* line 75: int(np.ceil(log((hillMax - hillMin) / 5))), gap in whole units
\* (5 / e < 2, 5 e < 14, 5 e^2 < 37)
PairSteps(gap) ==
    IF gap <= 1 THEN -1
    ELSE IF gap <= 5 THEN 0
    ELSE IF gap <= 13 THEN 1
    ELSE 2

EstimatePending == [kind |-> "pending", hills |-> <<>>, seeds |-> <<>>, err |-> "none"]
EstimateLists(hs, ss) == [kind |-> "lists", hills |-> hs, seeds |-> ss, err |-> "none"]
EstimateRaises(e) == [kind |-> "raise", hills |-> <<>>, seeds |-> <<>>, err |-> e]

EstimateInit ==
    /\ \E n \in 2..MaxGrid :
         snGrid \in {g \in [1..n -> 1..MaxHill] : StrictlyIncreasing(g)}
    /\ snDefault \in BOOLEAN
    /\ hillIdx = 0
    /\ numEquilibria = 0
    /\ numEquilibriaInf = 0
    /\ hill_for_saddle = <<>>
    /\ equilibria_for_saddle = <<>>
    /\ snCalls = <<>>
    /\ snPc = "first"
    /\ snResult = EstimatePending

EstimateIdle ==
    /\ snGrid = <<>>
    /\ snDefault = TRUE
    /\ hillIdx = 0
    /\ numEquilibria = 0
    /\ numEquilibriaInf = 0
    /\ hill_for_saddle = <<>>
    /\ equilibria_for_saddle = <<>>
    /\ snCalls = <<>>
    /\ snPc = "idle"
    /\ snResult = EstimatePending

\* line 50
estimate_count_first ==
    /\ snPc = "first"
    /\ \E c \in CountChoices(GridDensityClass, snGrid[1] * HillUnit) :
         /\ bsMemo' = Remember(GridDensityClass, snGrid[1] * HillUnit, c)
         /\ IF c.kind = "raise"
            THEN /\ snResult' = EstimateRaises(c.err)
                 /\ snPc' = "done"
                 /\ UNCHANGED numEquilibria
            ELSE /\ numEquilibria' = c.count
                 /\ snPc' = "last"
                 /\ UNCHANGED snResult
    /\ UNCHANGED <<snGrid, snDefault, hillIdx, numEquilibriaInf, hill_for_saddle,
                   equilibria_for_saddle, snCalls>>
    /\ UNCHANGED <<bsLow, bsHigh, bsNSteps, n_steps, hill0, hill1, nEq0, nEq1, bsI,
                   bsMids, bsPc, bsResult>>
    /\ UNCHANGED exceptSaddle

\* line 51
estimate_count_last ==
    /\ snPc = "last"
    /\ \E c \in CountChoices(GridDensityClass, snGrid[Len(snGrid)] * HillUnit) :
         /\ bsMemo' = Remember(GridDensityClass, snGrid[Len(snGrid)] * HillUnit, c)
         /\ IF c.kind = "raise"
            THEN /\ snResult' = EstimateRaises(c.err)
                 /\ snPc' = "done"
                 /\ UNCHANGED numEquilibriaInf
            ELSE /\ numEquilibriaInf' = c.count
                 /\ snPc' = "branch"
                 /\ UNCHANGED snResult
    /\ UNCHANGED <<snGrid, snDefault, hillIdx, numEquilibria, hill_for_saddle,
                   equilibria_for_saddle, snCalls>>
    /\ UNCHANGED <<bsLow, bsHigh, bsNSteps, n_steps, hill0, hill1, nEq0, nEq1, bsI,
                   bsMids, bsPc, bsResult>>
    /\ UNCHANGED exceptSaddle

\* lines 56-59: bisect the whole range
estimate_bisect_whole ==
    /\ snPc = "branch"
    /\ numEquilibriaInf > 1
    /\ LET lo == snGrid[1]
           hi == snGrid[Len(snGrid)]
       IN  /\ BisectEntry(lo * HillUnit, hi * HillUnit, WholeRangeSteps(hi - lo))
           /\ snCalls' = Append(snCalls, [lo |-> lo, hi |-> hi,
                                          steps |-> WholeRangeSteps(hi - lo)])
    /\ snPc' = "whole"
    /\ UNCHANGED <<snGrid, snDefault, hillIdx, numEquilibria, numEquilibriaInf,
                   hill_for_saddle, equilibria_for_saddle, snResult>>
    /\ UNCHANGED bsMemo
    /\ UNCHANGED exceptSaddle

\* lines 68-76: one pass of the while loop, up to the call of bisection
estimate_walk ==
    /\ \/ snPc = "branch" /\ ~(numEquilibriaInf > 1)
       \/ snPc = "walk"
    /\ hillIdx < Len(snGrid) - 1
    /\ LET hillMin == snGrid[hillIdx + 1]
           hillMax == snGrid[hillIdx + 2]
       IN  \E c \in CountChoices(GridDensityClass, hillMax * HillUnit) :
             /\ bsMemo' = Remember(GridDensityClass, hillMax * HillUnit, c)
             /\ IF c.kind = "raise"
                THEN /\ snResult' = EstimateRaises(c.err)
                     /\ snPc' = "done"
                     /\ UNCHANGED <<hillIdx, numEquilibria, snCalls>>
                     /\ UNCHANGED <<bsLow, bsHigh, bsNSteps, n_steps, hill0, hill1,
                                    nEq0, nEq1, bsI, bsMids, bsPc, bsResult>>
                ELSE /\ numEquilibria' = c.count
                     /\ hillIdx' = hillIdx + 1
                     /\ UNCHANGED snResult
                     /\ IF c.count - numEquilibria # 0
                        THEN /\ BisectEntry(hillMin * HillUnit, hillMax * HillUnit,
                                            PairSteps(hillMax - hillMin))
                             /\ snCalls' = Append(snCalls,
                                                  [lo |-> hillMin, hi |-> hillMax,
                                                   steps |-> PairSteps(hillMax - hillMin)])
                             /\ snPc' = "pair"
                        ELSE /\ snPc' = "walk"
                             /\ UNCHANGED snCalls
                             /\ UNCHANGED <<bsLow, bsHigh, bsNSteps, n_steps, hill0,
                                            hill1, nEq0, nEq1, bsI, bsMids, bsPc,
                                            bsResult>>
    /\ UNCHANGED <<snGrid, snDefault, numEquilibriaInf, hill_for_saddle,
                   equilibria_for_saddle>>
    /\ UNCHANGED exceptSaddle

\* lines 59-66 and 76-78: bisection is back
estimate_collect ==
    /\ snPc \in {"whole", "pair"}
    /\ bsPc = "done"
    /\ IF bsResult.kind = "raise"
       THEN /\ snResult' = EstimateRaises(bsResult.err)
            /\ snPc' = "done"
            /\ UNCHANGED <<hill_for_saddle, equilibria_for_saddle>>
       ELSE /\ hill_for_saddle' = Append(hill_for_saddle, bsResult.hill)
            /\ equilibria_for_saddle' = Append(equilibria_for_saddle, bsResult.seed[1])
            /\ IF snPc = "whole"
               THEN /\ snResult' = EstimateLists(hill_for_saddle', equilibria_for_saddle')
                    /\ snPc' = "done"
               ELSE /\ snPc' = "walk"
                    /\ UNCHANGED snResult
    /\ UNCHANGED <<snGrid, snDefault, hillIdx, numEquilibria, numEquilibriaInf, snCalls>>
    /\ UNCHANGED bisectVars
    /\ UNCHANGED exceptSaddle

\* line 80
estimate_return ==
    /\ \/ snPc = "branch" /\ ~(numEquilibriaInf > 1)
       \/ snPc = "walk"
    /\ ~(hillIdx < Len(snGrid) - 1)
    /\ snResult' = EstimateLists(hill_for_saddle, equilibria_for_saddle)
    /\ snPc' = "done"
    /\ UNCHANGED <<snGrid, snDefault, hillIdx, numEquilibria, numEquilibriaInf,
                   hill_for_saddle, equilibria_for_saddle, snCalls>>
    /\ UNCHANGED bisectVars
    /\ UNCHANGED exceptSaddle

EstimateStep ==
    \/ estimate_count_first
    \/ estimate_count_last
    \/ estimate_bisect_whole
    \/ estimate_walk
    \/ estimate_collect
    \/ estimate_return

\* the consecutive grid pairs at which the counts of estimate_saddle_node differ
CountAt(k) == bsMemo[<<GridDensityClass, snGrid[k] * HillUnit>>]

DifferingPairs == {k \in 1..(Len(snGrid) - 1) : CountAt(k) # CountAt(k + 1)}

(* C9: estimate_saddle_node returns two lists of equal length: when the    *)
(* count at the last grid value exceeds 1, one candidate, from bisecting   *)
(* [hillGrid[0], hillGrid[-1]]; otherwise one candidate for each pair of   *)
(* consecutive grid values whose counts differ, in grid order, and none    *)
(* when the count is the same at all grid values.                          *)
EstimateContract ==
    (snPc = "done" /\ snResult.err \notin {"IndexError", "LinAlgError"}) =>
        /\ snResult.kind = "lists"
        /\ Len(snResult.hills) = Len(snResult.seeds)
        /\ Len(snResult.hills) = Len(snCalls)
        /\ numEquilibriaInf > 1 =>
              /\ Len(snCalls) = 1
              /\ snCalls[1].lo = snGrid[1]
              /\ snCalls[1].hi = snGrid[Len(snGrid)]
        /\ ~(numEquilibriaInf > 1) =>
              /\ Len(snCalls) = Cardinality(DifferingPairs)
              /\ \A j \in 1..Len(snCalls) :
                    \E k \in DifferingPairs :
                       snCalls[j].lo = snGrid[k] /\ snCalls[j].hi = snGrid[k + 1]
              /\ \A j \in 1..(Len(snCalls) - 1) : snCalls[j].lo < snCalls[j + 1].lo

-----------------------------------------------------------------------------
(* from_eqs_select_saddle_eq and find_nearest_row                          *)
(*                                                                         *)
(* An equilibrium matrix is the sequence of its rows; the rows lie on a    *)
(* line, a row being its coordinate 0..MaxCoord along it, and slDim tells  *)
(* how many columns the matrix has.                                        *)

MaxRows == 4         \* most rows of an equilibrium matrix
MaxCoord == 2        \* rows are 0..MaxCoord
MaxCols == 2         \* most columns of an equilibrium matrix

Matrices == UNION {[1..n -> 0..MaxCoord] : n \in 1..MaxRows}

\* lines 142-145: argmin takes the first row at the least distance (from 0)
find_nearest_row(array2D, value1D) ==
    CHOOSE idx \in 0..(Len(array2D) - 1) :
        /\ \A k \in 1..Len(array2D) :
              Dist(array2D[idx + 1], value1D) <= Dist(array2D[k], value1D)
        /\ \A k \in 1..idx :
              Dist(array2D[k], value1D) > Dist(array2D[idx + 1], value1D)

SelectPending == [kind |-> "pending", rows |-> <<>>, sum |-> 0, n |-> 0]
SelectTypeError == [kind |-> "raise", rows |-> <<>>, sum |-> 0, n |-> 0]
\* line 135: return equilibria_at_1
SelectRows(rows) == [kind |-> "rows", rows |-> rows, sum |-> 0, n |-> 0]
\* line 137-139: np.mean(equilibria_at_1, axis=0), kept as sum and number of rows
SelectMean(rows) == [kind |-> "mean", rows |-> <<>>, sum |-> SumSeq(rows), n |-> Len(rows)]

\* lines 118-121: warnings is a module, and calling it raises TypeError
WarningRaises(n0, n1) == n0 = n1 \/ Abs(n0 - n1) > 2

SelectInit ==
    /\ slA \in Matrices
    /\ slB \in Matrices
    /\ slDim \in 1..MaxCols
    /\ equilibria_at_0 = slA
    /\ equilibria_at_1 = slB
    /\ slI = 0
    /\ slRemoved = <<>>
    /\ slPc = "check"
    /\ slResult = SelectPending

SelectIdle ==
    /\ slA = <<>>
    /\ slB = <<>>
    /\ slDim = 0
    /\ equilibria_at_0 = <<>>
    /\ equilibria_at_1 = <<>>
    /\ slI = 0
    /\ slRemoved = <<>>
    /\ slPc = "idle"
    /\ slResult = SelectPending

\* lines 118-121
select_check ==
    /\ slPc = "check"
    /\ IF WarningRaises(Len(equilibria_at_0), Len(equilibria_at_1))
       THEN /\ slResult' = SelectTypeError
            /\ slPc' = "done"
       ELSE /\ slPc' = "order"
            /\ UNCHANGED slResult
    /\ UNCHANGED <<slA, slB, slDim, equilibria_at_0, equilibria_at_1, slI, slRemoved>>
    /\ UNCHANGED exceptSelect

\* lines 122-125
select_order ==
    /\ slPc = "order"
    /\ IF Len(equilibria_at_0) > Len(equilibria_at_1)
       THEN /\ equilibria_at_0' = equilibria_at_1
            /\ equilibria_at_1' = equilibria_at_0
       ELSE UNCHANGED <<equilibria_at_0, equilibria_at_1>>
    /\ slPc' = "match"
    /\ UNCHANGED <<slA, slB, slDim, slI, slRemoved, slResult>>
    /\ UNCHANGED exceptSelect

\* lines 129-131, one pass of the loop
select_match ==
    /\ slPc = "match"
    /\ slI < Len(equilibria_at_0)
    /\ LET idx == find_nearest_row(equilibria_at_1, equilibria_at_0[slI + 1]) IN
       /\ equilibria_at_1' = np_delete(equilibria_at_1, idx)
       /\ slRemoved' = Append(slRemoved, [member |-> equilibria_at_0[slI + 1],
                                          removed |-> equilibria_at_1[idx + 1],
                                          pool |-> equilibria_at_1])
    /\ slI' = slI + 1
    /\ UNCHANGED <<slA, slB, slDim, equilibria_at_0, slPc, slResult>>
    /\ UNCHANGED exceptSelect

\* lines 133-139
select_return ==
    /\ slPc = "match"
    /\ ~(slI < Len(equilibria_at_0))
    /\ slResult' = IF slDim = 1 THEN SelectRows(equilibria_at_1)
                   ELSE SelectMean(equilibria_at_1)
    /\ slPc' = "done"
    /\ UNCHANGED <<slA, slB, slDim, equilibria_at_0, equilibria_at_1, slI, slRemoved>>
    /\ UNCHANGED exceptSelect

SelectStep ==
    \/ select_check
    \/ select_order
    \/ select_match
    \/ select_return

Smaller == IF Len(slA) <= Len(slB) THEN slA ELSE slB
Larger == IF Len(slA) <= Len(slB) THEN slB ELSE slA

(* C11: from_eqs_select_saddle_eq returns for every pair of matrices, also *)
(* for two of equal count: it takes one row, a nearest one among those     *)
(* left, out of the larger matrix for each row of the smaller, and returns *)
(* the |larger| - |smaller| rows left, as they are when there is one       *)
(* column and as their mean otherwise.                                     *)
SelectContract ==
    slPc = "done" =>
        /\ slResult.kind \in {"rows", "mean"}
        /\ Len(slRemoved) = Len(Smaller)
        /\ \A k \in 1..Len(slRemoved) :
              /\ slRemoved[k].member = Smaller[k]
              /\ \A r \in 1..Len(slRemoved[k].pool) :
                    Dist(slRemoved[k].removed, slRemoved[k].member)
                       <= Dist(slRemoved[k].pool[r], slRemoved[k].member)
        /\ Len(equilibria_at_1) = Len(Larger) - Len(Smaller)
        /\ slDim = 1 => slResult = SelectRows(equilibria_at_1)
        /\ slDim > 1 => slResult = SelectMean(equilibria_at_1)

-----------------------------------------------------------------------------
(* find_saddle_coef                                                        *)
(*                                                                         *)
(* A candidate is a hill value with the seed estimate_saddle_node paired   *)
(* with it; the seed of the k-th candidate is written k.  A solution of    *)
(* the saddle-node solver is a hill value in half rounding units.          *)

MaxCands == 3        \* most candidates estimate_saddle_node returns
MaxSols == 2         \* most solutions the solver returns for a candidate
MaxSolRaw == 3       \* solutions are 1..MaxSolRaw half units

\* lines 181-182: jSols = ezcat(SN.find_saddle_node(...)), a vector of solutions
SolverOutcomes == UNION {[1..n -> 1..MaxSolRaw] : n \in 0..MaxSols}

\* line 170: the lists estimate_saddle_node can return
CandidateLists ==
    UNION {{EstimateLists(hs, [k \in 1..n |-> k]) :
               hs \in {g \in [1..n -> 1..MaxCands] : StrictlyIncreasing(g)}} :
           n \in 0..MaxCands}

EstimateOutcomes ==
    CandidateLists \cup {EstimateRaises(e) : e \in {"IndexError", "TypeError", "LinAlgError"}}

\* line 184: np.unique(np.round(jSols, 10))
Uniquify(jSols) == np_unique({Round(jSols[k]) : k \in 1..Len(jSols)})

\* line 183: the candidate counts as a saddle node found
IsConfirmed_MoreThanOne(jSols) == Len(jSols) > 1

IsConfirmed(jSols) == Len(jSols) > 0

\* list.pop(): the last element leaves the list
Popped(list) == SubSeq(list, 1, Len(list) - 1)

CoefPending == [kind |-> "pending", SN |-> <<>>, bad |-> <<>>, err |-> "none"]
CoefSentinel == [kind |-> "zeros", SN |-> <<>>, bad |-> <<>>, err |-> "none"]
CoefLists(sn, bad) == [kind |-> "lists", SN |-> sn, bad |-> bad, err |-> "none"]
CoefRaises(e) == [kind |-> "raise", SN |-> <<>>, bad |-> <<>>, err |-> e]

CoefInit ==
    /\ fcEstimate = EstimatePending
    /\ fcHills = <<>>
    /\ fcSeeds = <<>>
    /\ SNParameters = <<>>
    /\ badCandidates = <<>>
    /\ fcLog = <<>>
    /\ fcPc = "estimate"
    /\ fcResult = CoefPending

CoefIdle ==
    /\ fcEstimate = EstimatePending
    /\ fcHills = <<>>
    /\ fcSeeds = <<>>
    /\ SNParameters = <<>>
    /\ badCandidates = <<>>
    /\ fcLog = <<>>
    /\ fcPc = "idle"
    /\ fcResult = CoefPending

\* lines 165-170
coef_estimate ==
    /\ fcPc = "estimate"
    /\ \E e \in EstimateOutcomes :
         /\ fcEstimate' = e
         /\ IF e.kind = "raise"
            THEN /\ fcResult' = CoefRaises(e.err)
                 /\ fcPc' = "done"
                 /\ UNCHANGED <<fcHills, fcSeeds>>
            ELSE /\ fcHills' = e.hills
                 /\ fcSeeds' = e.seeds
                 /\ fcPc' = "test"
                 /\ UNCHANGED fcResult
    /\ UNCHANGED <<SNParameters, badCandidates, fcLog>>
    /\ UNCHANGED exceptCoef

\* lines 173-176
coef_test ==
    /\ fcPc = "test"
    /\ IF Len(fcHills) = 0
       THEN /\ fcResult' = CoefSentinel
            /\ fcPc' = "done"
       ELSE /\ fcPc' = "loop"
            /\ UNCHANGED fcResult
    /\ UNCHANGED <<fcEstimate, fcHills, fcSeeds, SNParameters, badCandidates, fcLog>>
    /\ UNCHANGED exceptCoef

\* lines 177-188, one candidate
coef_candidate ==
    /\ fcPc = "loop"
    /\ fcHills # <<>>
    /\ LET candidateHill == fcHills[Len(fcHills)]
           equilibria == fcSeeds[Len(fcSeeds)]
       IN  \E jSols \in SolverOutcomes :
             /\ IF IsConfirmed(jSols)
                THEN /\ SNParameters' = Append(SNParameters, Uniquify(jSols))
                     /\ UNCHANGED badCandidates
                ELSE /\ badCandidates' = Append(badCandidates, <<candidateHill, equilibria>>)
                     /\ UNCHANGED SNParameters
             /\ fcLog' = Append(fcLog, [index |-> Len(fcHills), found |-> Len(jSols) > 0,
                                        list |-> IF IsConfirmed(jSols) THEN "SN" ELSE "bad"])
    /\ fcHills' = Popped(fcHills)
    /\ fcSeeds' = Popped(fcSeeds)
    /\ UNCHANGED <<fcEstimate, fcPc, fcResult>>
    /\ UNCHANGED exceptCoef

\* line 189
coef_return ==
    /\ fcPc = "loop"
    /\ fcHills = <<>>
    /\ fcResult' = CoefLists(SNParameters, badCandidates)
    /\ fcPc' = "done"
    /\ UNCHANGED <<fcEstimate, fcHills, fcSeeds, SNParameters, badCandidates, fcLog>>
    /\ UNCHANGED exceptCoef

CoefStep ==
    \/ coef_estimate
    \/ coef_test
    \/ coef_candidate
    \/ coef_return

CoefReturned == fcPc = "done" /\ fcResult.kind # "raise"

(* C12: find_saddle_coef returns the pair (0, 0) exactly when              *)
(* estimate_saddle_node returned no candidate; otherwise each candidate is *)
(* consumed once and put in one list, SNParameters when the solver gave    *)
(* at least one solution for it and badCandidates when it gave none, so    *)
(* the lengths of the two lists add up to the number of candidates and the *)
(* lists are not both empty.                                               *)
CoefConsumesEveryCandidate ==
    CoefReturned =>
        /\ (fcResult = CoefSentinel) <=> (Len(fcEstimate.hills) = 0)
        /\ Len(fcEstimate.hills) > 0 =>
              /\ fcResult.kind = "lists"
              /\ \A c \in 1..Len(fcEstimate.hills) :
                    Cardinality({k \in 1..Len(fcLog) : fcLog[k].index = c}) = 1
              /\ \A k \in 1..Len(fcLog) :
                    fcLog[k].list = IF fcLog[k].found THEN "SN" ELSE "bad"
              /\ Len(fcResult.SN) = Cardinality({k \in 1..Len(fcLog) : fcLog[k].list = "SN"})
              /\ Len(fcResult.bad) = Cardinality({k \in 1..Len(fcLog) : fcLog[k].list = "bad"})
              /\ Len(fcResult.SN) + Len(fcResult.bad) = Len(fcEstimate.hills)
              /\ ~(fcResult.SN = <<>> /\ fcResult.bad = <<>>)
              /\ \A k \in 1..Len(fcResult.bad) :
                    fcResult.bad[k][1] = fcEstimate.hills[fcResult.bad[k][2]]

\* three candidates, of which the solver resolved some and failed on others
CoefWitness ==
    /\ CoefReturned
    /\ Len(fcEstimate.hills) = 3
    /\ Len(fcResult.SN) = 2
    /\ Len(fcResult.bad) = 1

-----------------------------------------------------------------------------
(* The heat-map sweep                                                      *)
(*                                                                         *)
(* The row a_j of a bucket is written j, the index of the sample.          *)

MaxSamples == 2      \* largest n_sample

\* find_saddle_coef as a function of what estimate_saddle_node gives and of
\* what the solver gives for each candidate: the lists after the candidates
\* k, k - 1, ..., 1 were popped in that order
RECURSIVE ConsumeFrom(_, _, _)
ConsumeFrom(e, sols, k) ==
    IF k = 0 THEN <<<<>>, <<>>>>
    ELSE LET rest == ConsumeFrom(e, sols, k - 1) IN
         IF IsConfirmed(sols[k])
         THEN <<<<Uniquify(sols[k])>> \o rest[1], rest[2]>>
         ELSE <<rest[1], <<<<e.hills[k], e.seeds[k]>>>> \o rest[2]>>

find_saddle_coef(e, sols) ==
    IF e.kind = "raise" THEN CoefRaises(e.err)
    ELSE IF Len(e.hills) = 0 THEN CoefSentinel
    ELSE CoefLists(ConsumeFrom(e, sols, Len(e.hills))[1],
                   ConsumeFrom(e, sols, Len(e.hills))[2])

CoefResults ==
    {find_saddle_coef(e, sols) : e \in EstimateOutcomes,
                                 sols \in [1..MaxCands -> SolverOutcomes]}

\* line 61: if SNParameters and SNParameters != 0
HasSaddles(r) == r.kind = "lists" /\ r.SN # <<>>

\* line 70: if badCandidates and badCandidates != 0
HasBad_Never(r) == FALSE

HasBad(r) == r.kind = "lists" /\ r.bad # <<>>

\* line 78: if SNParameters == 0 and badCandidates == 0
IsBoring_NoSaddle(r) == r.kind = "zeros" \/ (r.kind = "lists" /\ r.SN = <<>>)

IsBoring(r) == r.kind = "zeros"

\* lines 67-69: one row for every k > 0
Repeat(j, n) == [k \in 1..n |-> j]

SweepInit ==
    /\ n_sample \in 1..MaxSamples
    /\ swJ = 0
    /\ parameter_full = <<>>
    /\ lowest_hill = <<>>
    /\ bad_parameters = <<>>
    /\ bad_candidates = <<>>
    /\ boring_parameters = <<>>
    /\ multiple_saddles = <<>>
    /\ swResults = <<>>
    /\ swPc = "loop"

SweepIdle ==
    /\ n_sample = 0
    /\ swJ = 0
    /\ parameter_full = <<>>
    /\ lowest_hill = <<>>
    /\ bad_parameters = <<>>
    /\ bad_candidates = <<>>
    /\ boring_parameters = <<>>
    /\ multiple_saddles = <<>>
    /\ swResults = <<>>
    /\ swPc = "idle"

\* lines 58-79, one sample
sweep_sample ==
    /\ swPc = "loop"
    /\ swJ < n_sample
    /\ \E r \in CoefResults :
         LET j == swJ + 1 IN
         /\ r.kind # "raise"
         /\ swResults' = Append(swResults, r)
         /\ IF HasSaddles(r)
            THEN /\ parameter_full' = Append(parameter_full, j)
                 /\ lowest_hill' = lowest_hill \o r.SN[1]
                 /\ multiple_saddles' = multiple_saddles \o Repeat(j, Len(r.SN) - 1)
            ELSE UNCHANGED <<parameter_full, lowest_hill, multiple_saddles>>
         /\ IF HasBad(r)
            THEN /\ bad_parameters' = Append(bad_parameters, j)
                 /\ bad_candidates' = Append(bad_candidates, r.bad)
            ELSE UNCHANGED <<bad_parameters, bad_candidates>>
         /\ IF IsBoring(r)
            THEN boring_parameters' = Append(boring_parameters, j)
            ELSE UNCHANGED boring_parameters
    /\ swJ' = swJ + 1
    /\ UNCHANGED <<n_sample, swPc>>
    /\ UNCHANGED exceptSweep

\* line 60: find_saddle_coef raises, and the script ends there
sweep_raises ==
    /\ swPc = "loop"
    /\ swJ < n_sample
    /\ \E r \in CoefResults : r.kind = "raise"
    /\ swPc' = "raised"
    /\ UNCHANGED <<n_sample, swJ, parameter_full, lowest_hill, bad_parameters,
                   bad_candidates, boring_parameters, multiple_saddles, swResults>>
    /\ UNCHANGED exceptSweep

\* lines 81-84: np.savez
sweep_save ==
    /\ swPc = "loop"
    /\ ~(swJ < n_sample)
    /\ swPc' = "saved"
    /\ UNCHANGED <<n_sample, swJ, parameter_full, lowest_hill, bad_parameters,
                   bad_candidates, boring_parameters, multiple_saddles, swResults>>
    /\ UNCHANGED exceptSweep

SweepStep ==
    \/ sweep_sample
    \/ sweep_raises
    \/ sweep_save

\* how often row j was appended to a bucket
Times(bucket, j) == Cardinality({k \in 1..Len(bucket) : bucket[k] = j})

TimesInAll(j) ==
    Times(parameter_full, j) + Times(multiple_saddles, j)
        + Times(bad_parameters, j) + Times(boring_parameters, j)

Processed == 1..swJ


(* C13 as stated: each processed sample was added to exactly one of the    *)
(* four buckets, exactly once.                                             *)
SweepExactlyOneBucket == \A j \in Processed : TimesInAll(j) = 1

(* C13, amended: each processed sample was added to boring_parameters once *)
(* and to no other bucket when find_saddle_coef returned (0, 0); otherwise *)
(* to parameter_full once when some candidate was confirmed, to            *)
(* multiple_saddles once for every confirmed candidate after the first,    *)
(* and to bad_parameters once when some candidate was bad, so a sample can *)
(* be in several buckets and in multiple_saddles more than once.           *)
SweepBucketCounts ==
    \A j \in Processed :
        LET r == swResults[j] IN
        /\ Times(boring_parameters, j) = IF r = CoefSentinel THEN 1 ELSE 0
        /\ Times(parameter_full, j) = IF Len(r.SN) > 0 THEN 1 ELSE 0
        /\ Times(multiple_saddles, j) = IF Len(r.SN) > 1 THEN Len(r.SN) - 1 ELSE 0
        /\ Times(bad_parameters, j) = IF Len(r.bad) > 0 THEN 1 ELSE 0
        /\ r = CoefSentinel => TimesInAll(j) = 1

\* a sample with three confirmed candidates: once in parameter_full, twice in
\* multiple_saddles
SweepBucketsWitness ==
    \E j \in Processed :
        /\ Len(swResults[j].SN) = 3
        /\ Times(parameter_full, j) = 1
        /\ Times(multiple_saddles, j) = 2

(* C14: every processed sample is in at least one of the buckets that are  *)
(* saved, and it is in boring_parameters exactly when find_saddle_coef     *)
(* returned (0, 0).                                                        *)
SweepDropsNoSample ==
    \A j \in Processed :
        /\ TimesInAll(j) >= 1
        /\ (Times(boring_parameters, j) >= 1) <=> (swResults[j] = CoefSentinel)

\* the buckets are saved, with a sample that has bad candidates only and a
\* sample without candidates
SweepSavedWitness ==
    /\ swPc = "saved"
    /\ \E j \in Processed :
         /\ swResults[j].kind = "lists"
         /\ swResults[j].SN = <<>>
         /\ Times(bad_parameters, j) = 1
         /\ TimesInAll(j) = 1
    /\ \E j \in Processed : swResults[j] = CoefSentinel /\ Times(boring_parameters, j) = 1

\* all hill values confirmed for a sample, over all its candidates
AllConfirmed(r) == UNION {{r.SN[c][i] : i \in 1..Len(r.SN[c])} : c \in 1..Len(r.SN)}

(* C15: lowest_hill has one value for each row of parameter_full, and it   *)
(* is the lowest hill value confirmed for that row's sample over all its   *)
(* candidates.                                                             *)
LowestHillParallel ==
    /\ Len(lowest_hill) = Len(parameter_full)
    /\ \A k \in 1..Len(parameter_full) :
          lowest_hill[k] = SetMin(AllConfirmed(swResults[parameter_full[k]]))

(***************************************************************************)
(* associate_parameter_regionTS (create_dataset.py, 205-218).              *)
(* alpha and beta are arrays of one shape.  Their entries are counted in   *)
(* half units, so that 1 and 2 are HalfUnits(1) and HalfUnits(2) and       *)
(* values strictly between the thresholds exist; NaN compares false with   *)
(* everything.                                                             *)
(***************************************************************************)
MaxArr == 2          \* longest alpha / beta array
MaxAB == 5           \* entries of alpha and beta are 0..MaxAB half units

HalfUnits(k) == 2 * k

ABValues == {NaN} \cup 0..MaxAB

ABArrays == UNION {[1..n -> ABValues] : n \in 1..MaxArr}

\* np.zeros_like(alpha)
zeros_like(a) == [i \in 1..Len(a) |-> 0]

\* array[mask] = value
MaskAssign(array, mask, value) ==
    [i \in 1..Len(array) |-> IF mask[i] THEN value ELSE array[i]]

\* a < k
Below(a, k) == [i \in 1..Len(a) |-> Lt(a[i], HalfUnits(k))]

\* a >= k
AtLeast_Strict(a, k) == [i \in 1..Len(a) |-> Lt(HalfUnits(k), a[i])]
AtLeast(a, k) == [i \in 1..Len(a) |-> Le(HalfUnits(k), a[i])]

\* np.logical_and(m1, m2)
logical_and(m1, m2) == [i \in 1..Len(m1) |-> m1[i] /\ m2[i]]

\* lines 209-211 and 213-215: the three masked assignments of one axis
BinAxis(zeros, a) ==
    LET s1 == MaskAssign(zeros, Below(a, 1), 0)
        s2 == MaskAssign(s1, logical_and(AtLeast(a, 1), Below(a, 2)), 1)
    IN  MaskAssign(s2, AtLeast(a, 2), 2)

RegionInit ==
    /\ rgAlpha \in ABArrays
    /\ rgBeta \in {b \in ABArrays : Len(b) = Len(rgAlpha)}
    /\ axes_1 = <<>>
    /\ axes_2 = <<>>
    /\ matrix_region = <<>>
    /\ rgPc = "start"

RegionIdle ==
    /\ rgAlpha = <<>>
    /\ rgBeta = <<>>
    /\ axes_1 = <<>>
    /\ axes_2 = <<>>
    /\ matrix_region = <<>>
    /\ rgPc = "idle"

\* lines 206, 209-211
region_axes_1 ==
    /\ rgPc = "start"
    /\ axes_1' = BinAxis(zeros_like(rgAlpha), rgAlpha)
    /\ rgPc' = "axes_1"
    /\ UNCHANGED <<rgAlpha, rgBeta, axes_2, matrix_region>>
    /\ UNCHANGED exceptRegion

\* lines 207, 213-215: axes_2 is shaped like alpha and filled from beta
region_axes_2 ==
    /\ rgPc = "axes_1"
    /\ axes_2' = BinAxis(zeros_like(rgAlpha), rgBeta)
    /\ rgPc' = "axes_2"
    /\ UNCHANGED <<rgAlpha, rgBeta, axes_1, matrix_region>>
    /\ UNCHANGED exceptRegion

\* lines 217-218
region_return ==
    /\ rgPc = "axes_2"
    /\ matrix_region' = [i \in 1..Len(axes_1) |-> axes_1[i] * 3 + axes_2[i]]
    /\ rgPc' = "done"
    /\ UNCHANGED <<rgAlpha, rgBeta, axes_1, axes_2>>
    /\ UNCHANGED exceptRegion

RegionStep ==
    \/ region_axes_1
    \/ region_axes_2
    \/ region_return

\* The whole function, as the callers use it.
associate_parameter_regionTS(alpha, beta) ==
    LET a1 == BinAxis(zeros_like(alpha), alpha)
        a2 == BinAxis(zeros_like(alpha), beta)
    IN  [i \in 1..Len(alpha) |-> a1[i] * 3 + a2[i]]

\* The bin the claim gives to a value that is a number.
ClaimBin(v) == IF v < HalfUnits(1) THEN 0 ELSE IF v < HalfUnits(2) THEN 1 ELSE 2

(* C16: associate_parameter_regionTS labels every sample on its own with   *)
(* 3 * bin(alpha) + bin(beta), where bin is 0 below 1, 1 from 1 up to but  *)
(* not including 2, and 2 from 2 on; every label lies in 0..8.             *)
RegionLabels ==
    rgPc = "done" =>
        /\ Len(matrix_region) = Len(rgAlpha)
        /\ \A i \in 1..Len(rgAlpha) :
            /\ matrix_region[i] \in 0..8
            /\ (rgAlpha[i] # NaN /\ rgBeta[i] # NaN) =>
                   matrix_region[i] = 3 * ClaimBin(rgAlpha[i]) + ClaimBin(rgBeta[i])

RegionWitness ==
    /\ rgPc = "done"
    /\ rgAlpha = <<HalfUnits(1), HalfUnits(2) + 1>>
    /\ rgBeta = <<HalfUnits(1) + 1, HalfUnits(2)>>
    /\ matrix_region = <<4, 8>>

(***************************************************************************)
(* Subsampling (create_dataset.py, 181-202 and 227-247).                   *)
(* A dataset is the arrays alpha and beta with the labels                  *)
(* associate_parameter_regionTS gives them; sample j is column j of data   *)
(* and row j of parameters.  A call returns the original indices of the    *)
(* rows it drew, or raises.                                                *)
(***************************************************************************)
MaxRequest == 3      \* largest number of rows requested

Requests == 1..MaxRequest

Regions == 0..8

\* an axis-aligned rectangle, its sides on the thresholds 0, 1, 2 and 3
Sides == {s \in (0..3) \X (0..3) : s[1] < s[2]}

SubsampleRaises(e) == [kind |-> "raise", exc |-> e, rows |-> <<>>]

SubsampleRows(rows) == [kind |-> "rows", exc |-> "", rows |-> rows]

NoSubsample == [kind |-> "none", exc |-> "", rows |-> <<>>]

NoSubsampleCall == [fn |-> "none", n |-> 0, region |-> 0, a |-> <<0, 0>>, b |-> <<0, 0>>]

\* np.where(regions == region_number), the indices in increasing order
RECURSIVE WhereFrom(_, _, _)
WhereFrom(labels, r, j) ==
    IF j > Len(labels) THEN <<>>
    ELSE (IF labels[j] = r THEN <<j>> ELSE <<>>) \o WhereFrom(labels, r, j + 1)

np_where(labels, r) == WhereFrom(labels, r, 1)

\* np.random.randint(0, size_data, size_subsample): size_subsample indices,
\* repetitions allowed
randint(size_data, size_subsample) == [1..size_subsample -> 1..size_data]

\* lines 227-235
subsample_outcomes(size_subsample) ==
    LET size_data == Len(parameter_region) IN
    IF size_subsample > size_data
    THEN {SubsampleRaises("NameError")}
    ELSE {SubsampleRows(index_random) : index_random \in randint(size_data, size_subsample)}

\* lines 238-247
region_subsample_outcomes(region_number, size_subsample) ==
    LET subindex_selection == np_where(parameter_region, region_number)
        size_data == Len(subindex_selection)
    IN  IF size_subsample > size_data
        THEN {SubsampleRaises("NameError")}
        ELSE {SubsampleRows([i \in 1..size_subsample |-> subindex_selection[index_random[i]]]) :
                 index_random \in randint(size_data, size_subsample)}

\* lines 181-190: an ndarray has no index method; a list's index returns the
\* first position as an int, or raises ValueError, and len of an int raises
by_region_outcomes(nSample, region) ==
    IF ssContainer = "ndarray" THEN {SubsampleRaises("AttributeError")}
    ELSE IF np_where(parameter_region, region) = <<>> THEN {SubsampleRaises("ValueError")}
    ELSE {SubsampleRaises("TypeError")}

\* line 194: np.nonzero returns a tuple holding one index array per dimension
NonzeroTuple(a, b) ==
    LET inside(j) == /\ Lt(HalfUnits(a[1]), ssAlpha[j]) /\ Lt(ssAlpha[j], HalfUnits(a[2]))
                     /\ Lt(HalfUnits(b[1]), ssBeta[j]) /\ Lt(ssBeta[j], HalfUnits(b[2]))
    IN  <<SelectSeq([j \in 1..Len(ssAlpha) |-> j], inside)>>

\* lines 193-202: len(idx) is the length of the tuple; indexing the tuple
\* with the list random.sample returns raises TypeError
by_bounds_outcomes(nSample, a, b) ==
    LET idx == NonzeroTuple(a, b) IN
    IF Len(idx) < nSample
    THEN {SubsampleRaises("Not enough samples to go by")}
    ELSE {SubsampleRaises("TypeError")}

SubsampleInit ==
    /\ ssAlpha \in ABArrays
    /\ ssBeta \in {b \in ABArrays : Len(b) = Len(ssAlpha)}
    /\ parameter_region = associate_parameter_regionTS(ssAlpha, ssBeta)
    /\ ssContainer \in {"ndarray", "list"}
    /\ ssCall = NoSubsampleCall
    /\ ssOutcome = NoSubsample

SubsampleIdle ==
    /\ ssAlpha = <<>>
    /\ ssBeta = <<>>
    /\ parameter_region = <<>>
    /\ ssContainer = "idle"
    /\ ssCall = NoSubsampleCall
    /\ ssOutcome = NoSubsample

\* load_dataset returns arrays
subsample ==
    /\ ssCall = NoSubsampleCall
    /\ ssContainer = "ndarray"
    /\ \E n \in Requests :
        /\ ssCall' = [NoSubsampleCall EXCEPT !.fn = "subsample", !.n = n]
        /\ ssOutcome' \in subsample_outcomes(n)
    /\ UNCHANGED <<ssAlpha, ssBeta, parameter_region, ssContainer>>
    /\ UNCHANGED exceptSubsample

region_subsample ==
    /\ ssCall = NoSubsampleCall
    /\ ssContainer = "ndarray"
    /\ \E n \in Requests, r \in Regions :
        /\ ssCall' = [NoSubsampleCall EXCEPT !.fn = "region_subsample", !.n = n, !.region = r]
        /\ ssOutcome' \in region_subsample_outcomes(r, n)
    /\ UNCHANGED <<ssAlpha, ssBeta, parameter_region, ssContainer>>
    /\ UNCHANGED exceptSubsample

subsample_data_by_region ==
    /\ ssCall = NoSubsampleCall
    /\ \E n \in Requests, r \in Regions :
        /\ ssCall' = [NoSubsampleCall EXCEPT !.fn = "subsample_data_by_region", !.n = n, !.region = r]
        /\ ssOutcome' \in by_region_outcomes(n, r)
    /\ UNCHANGED <<ssAlpha, ssBeta, parameter_region, ssContainer>>
    /\ UNCHANGED exceptSubsample

subsample_data_by_bounds ==
    /\ ssCall = NoSubsampleCall
    /\ ssContainer = "ndarray"
    /\ \E n \in Requests, a \in Sides, b \in Sides :
        /\ ssCall' = [NoSubsampleCall EXCEPT !.fn = "subsample_data_by_bounds", !.n = n, !.a = a, !.b = b]
        /\ ssOutcome' \in by_bounds_outcomes(n, a, b)
    /\ UNCHANGED <<ssAlpha, ssBeta, parameter_region, ssContainer>>
    /\ UNCHANGED exceptSubsample

SubsampleStep ==
    \/ subsample
    \/ region_subsample
    \/ subsample_data_by_region
    \/ subsample_data_by_bounds

\* The samples a call may draw from, as the claims describe them.
FilteredPool ==
    {j \in 1..Len(ssAlpha) :
        CASE ssCall.fn = "subsample" -> TRUE
          [] ssCall.fn \in {"region_subsample", "subsample_data_by_region"} ->
                 parameter_region[j] = ssCall.region
          [] ssCall.fn = "subsample_data_by_bounds" ->
                 /\ ssAlpha[j] # NaN /\ ssBeta[j] # NaN
                 /\ HalfUnits(ssCall.a[1]) < ssAlpha[j] /\ ssAlpha[j] < HalfUnits(ssCall.a[2])
                 /\ HalfUnits(ssCall.b[1]) < ssBeta[j] /\ ssBeta[j] < HalfUnits(ssCall.b[2])
          [] OTHER -> FALSE}

(* C17: a request for more rows than the filtered pool holds raises the    *)
(* explicit 'not enough samples' error, in all four subsampling functions, *)
(* and returns nothing.                                                    *)
SubsampleRefusesExplicitly ==
    (ssCall.fn # "none" /\ ssCall.n > Cardinality(FilteredPool)) =>
        ssOutcome = SubsampleRaises("Not enough samples to go by")

(* C18: when the filtered pool holds at least nSample samples,             *)
(* subsample_data_by_region and subsample_data_by_bounds return exactly    *)
(* nSample rows, each of a sample of the pool (the four arrays are indexed *)
(* by the same drawn indices).                                             *)
SubsampleReturnsFilteredRows ==
    (/\ ssCall.fn \in {"subsample_data_by_region", "subsample_data_by_bounds"}
     /\ Cardinality(FilteredPool) >= ssCall.n) =>
        /\ ssOutcome.kind = "rows"
        /\ Len(ssOutcome.rows) = ssCall.n
        /\ \A i \in 1..Len(ssOutcome.rows) : ssOutcome.rows[i] \in FilteredPool

(***************************************************************************)
(* generate_data_from_coefs and load_dataset (create_dataset.py, 95-122).  *)
(* In memory a vector is a sequence and a matrix a sequence of rows.  On   *)
(* disk np.savez stores each array as its shape and its entries in row     *)
(* major order, under the file name extended by .npz unless it already     *)
(* ends so; np.load opens the name it is given.                            *)
(***************************************************************************)
MaxPars == 2         \* largest n_parameters
MaxCoef == 2         \* the coefficient vectors tried are k * (1, 2, ...), k in 1..MaxCoef

FileNames == [stem : {"TS_data"}, npz : BOOLEAN]

\* the values a sample entry takes: 0, 1 and 2
DataValues == {HalfUnits(k) : k \in 0..2}

DataMatrices(n_parameters, size_dataset) ==
    [1..n_parameters -> [1..size_dataset -> DataValues]]

\* The region-assignment functions passed in: both label a column of data
\* with associate_parameter_regionTS, of its first two entries or of its
\* first entry twice.
AssignRegions == {"rows_1_2", "row_1"}

assign_region(which, data) ==
    IF which = "rows_1_2" THEN associate_parameter_regionTS(data[1], data[2])
    ELSE associate_parameter_regionTS(data[1], data[1])

\* np.save of a vector, and of a matrix (rows of equal length)
npy_write_vector(v) == [shape |-> <<Len(v)>>, flat |-> v]

RECURSIVE ezcat_rows(_)
ezcat_rows(rows) == IF rows = <<>> THEN <<>> ELSE Head(rows) \o ezcat_rows(Tail(rows))

npy_write_matrix(a) == [shape |-> <<Len(a), Len(a[1])>>, flat |-> ezcat_rows(a)]

\* np.load of one member of the archive
npy_read_ColumnMajor(member) ==
    IF Len(member.shape) = 1 THEN member.flat
    ELSE [i \in 1..member.shape[1] |->
             [j \in 1..member.shape[2] |-> member.flat[(j - 1) * member.shape[1] + i]]]
npy_read(member) ==
    IF Len(member.shape) = 1 THEN member.flat
    ELSE [i \in 1..member.shape[1] |->
             [j \in 1..member.shape[2] |-> member.flat[(i - 1) * member.shape[2] + j]]]

\* np.savez(file_name, optimal_coef=..., data=..., parameter_region=...)
savez(file_name, coef, data, region) ==
    [name |-> [file_name EXCEPT !.npz = TRUE],
     archive |-> [optimal_coef |-> npy_write_vector(coef),
                  data |-> npy_write_matrix(data),
                  parameter_region |-> npy_write_vector(region)]]

NoFile == [name |-> [stem |-> "", npz |-> FALSE], archive |-> <<>>]

NotLoaded == [kind |-> "none", data |-> <<>>, parameter_region |-> <<>>, optimal_coef |-> <<>>]

FileNotFound == [kind |-> "raise", data |-> <<>>, parameter_region |-> <<>>, optimal_coef |-> <<>>]

\* lines 121-122
load_dataset_result(file_name) ==
    IF dsFile.name # file_name THEN FileNotFound
    ELSE [kind |-> "arrays",
          data |-> npy_read(dsFile.archive.data),
          parameter_region |-> npy_read(dsFile.archive.parameter_region),
          optimal_coef |-> npy_read(dsFile.archive.optimal_coef)]

DatasetInit ==
    /\ dsName \in FileNames
    /\ \E n_parameters \in 2..MaxPars, k \in 1..MaxCoef :
           optimal_coef = [i \in 1..(n_parameters * (1 + n_parameters)) |-> k * i]
    /\ dsAssign \in AssignRegions
    /\ dsData = <<>>
    /\ dsRegion = <<>>
    /\ dsFile = NoFile
    /\ dsLoaded = NotLoaded
    /\ dsAgain = <<>>
    /\ dsPc = "start"

DatasetIdle ==
    /\ dsName = NoFile.name
    /\ optimal_coef = <<>>
    /\ dsAssign = "idle"
    /\ dsData = <<>>
    /\ dsRegion = <<>>
    /\ dsFile = NoFile
    /\ dsLoaded = NotLoaded
    /\ dsAgain = <<>>
    /\ dsPc = "idle"

\* lines 106-109, for n_parameters with len(optimal_coef) = n_parameters * (1 + n_parameters)
generate_data_from_coefs ==
    /\ dsPc = "start"
    /\ \E n_parameters \in 2..MaxPars, size_dataset \in 1..MaxArr :
        /\ Len(optimal_coef) = n_parameters * (1 + n_parameters)
        /\ \E data \in DataMatrices(n_parameters, size_dataset) :
            /\ dsData' = data
            /\ dsRegion' = assign_region(dsAssign, data)
            /\ dsFile' = savez(dsName, optimal_coef, data, assign_region(dsAssign, data))
    /\ dsPc' = "saved"
    /\ UNCHANGED <<dsName, optimal_coef, dsAssign, dsLoaded, dsAgain>>
    /\ UNCHANGED exceptDataset

\* load_dataset, called with the name of the file written or with the name
\* generate_data_from_coefs returned
load_dataset ==
    /\ dsPc = "saved"
    /\ \E file_name \in {dsFile.name, dsName} :
           dsLoaded' = load_dataset_result(file_name)
    /\ dsPc' = "loaded"
    /\ UNCHANGED <<dsName, optimal_coef, dsAssign, dsData, dsRegion, dsFile, dsAgain>>
    /\ UNCHANGED exceptDataset

\* the region-assignment function run again on the reloaded samples
assign_again ==
    /\ dsPc = "loaded"
    /\ dsLoaded.kind = "arrays"
    /\ dsAgain' = assign_region(dsAssign, dsLoaded.data)
    /\ dsPc' = "done"
    /\ UNCHANGED <<dsName, optimal_coef, dsAssign, dsData, dsRegion, dsFile, dsLoaded>>
    /\ UNCHANGED exceptDataset

DatasetStep ==
    \/ generate_data_from_coefs
    \/ load_dataset
    \/ assign_again

MaxK == 3            \* most Hill components of a coordinate

StateValues == {1, 2}

GammaValues == {1, 2}

\* The components a coordinate is built from: sign, the four parameters
\* ell, delta, theta, hillCoefficient, and which of them are variable.
ComponentKinds ==
    {[sign |-> 1, row |-> <<1, 120, 2, 1>>, variable |-> {1, 2, 3, 4}],
     [sign |-> -1, row |-> <<1, 240, 1, 2>>, variable |-> {2, 3}],
     [sign |-> 1, row |-> <<0, 120, 1, 2>>, variable |-> {}]}

\* the row of the parameter array for a component: NaN where variable
ArrayRow(c) == [j \in 1..4 |-> IF j \in c.variable THEN NaN ELSE c.row[j]]

\* the values of the variable parameters of a component, in order
RECURSIVE VariableFrom(_, _)
VariableFrom(c, j) ==
    IF j > 4 THEN <<>>
    ELSE (IF j \in c.variable THEN <<c.row[j]>> ELSE <<>>) \o VariableFrom(c, j + 1)

VariableValues(c) == VariableFrom(c, 1)

\* the ordered integer partitions of K
Compositions(K) == {s \in SeqsUpTo(1..K, K) : SumSeq(s) = K}

RECURSIVE cumsum(_)
cumsum(s) ==
    IF s = <<>> THEN <<>>
    ELSE LET front == cumsum(SubSeq(s, 1, Len(s) - 1))
         IN  Append(front, (IF front = <<>> THEN 0 ELSE front[Len(front)]) + s[Len(s)])

RECURSIVE np_prod(_)
np_prod(s) == IF s = <<>> THEN 1 ELSE Head(s) * np_prod(Tail(s))

\* line 576: the number of Hill components
nProduction == Len(productionSign)

\* line 570
gammaIsVariable == hcGamma = NaN

\* lines 578-579: the trailing K state variables (positions counted from 1)
productionIndex == [k \in 1..nProduction |-> nState - nProduction + k]

\* lines 1234-1239
nParameterByProductionIndex_WholeArray ==
    [k \in 1..nProduction |->
        Cardinality({<<i, j>> \in (1..nProduction) \X (1..4) : parameterValues[i][j] = NaN})]
nParameterByProductionIndex ==
    [k \in 1..nProduction |-> Cardinality({j \in 1..4 : parameterValues[k][j] = NaN})]

\* line 1242, a vector of length K + 1
productionParameterIndexRange ==
    cumsum(<<IF gammaIsVariable THEN 1 ELSE 0>> \o nParameterByProductionIndex)

\* lines 603-609: parameter[range[j]:range[j + 1]] for the j-th component
ParameterSlice(parameter, j) ==
    SubSeq(parameter, productionParameterIndexRange[j] + 1, productionParameterIndexRange[j + 1])

parse_gamma(parameter) == IF gammaIsVariable THEN parameter[1] ELSE hcGamma

\* lines 225-231: the passed values fill the variable slots in order
curry_parameters(row, parameter) ==
    [j \in 1..4 |->
        IF row[j] = NaN THEN parameter[Cardinality({i \in 1..j : row[i] = NaN})]
        ELSE row[j]]

\* lines 233-248, for a curried parameter vector p
HillComponentCall(sign, x, p) ==
    IF sign = -1
    THEN p[1] + (p[2] * p[3] ^ p[4]) \div (p[3] ^ p[4] + x ^ p[4])
    ELSE p[1] + (p[2] * x ^ p[4]) \div (x ^ p[4] + p[3] ^ p[4])

\* lines 694-700
evaluate_production_components(x, parameter) ==
    [k \in 1..nProduction |->
        HillComponentCall(productionSign[k], x[productionIndex[k]],
                          curry_parameters(parameterValues[k], ParameterSlice(parameter, k)))]

\* lines 1247-1255: the indices of the components of every summand
set_summand_Single ==
    LET sumEndpoints == <<0>> \o cumsum(productionType)
    IN  [i \in 1..Len(productionType) |->
            [m \in 1..1 |-> sumEndpoints[i] + m]]
set_summand ==
    LET sumEndpoints == <<0>> \o cumsum(productionType)
    IN  [i \in 1..Len(productionType) |->
            [m \in 1..(sumEndpoints[i + 1] - sumEndpoints[i]) |-> sumEndpoints[i] + m]]

\* lines 708-713
evaluate_summand(componentValues) ==
    [j \in 1..Len(set_summand) |->
        SumSeq([m \in 1..Len(set_summand[j]) |-> componentValues[set_summand[j][m]]])]

CoordInit ==
    /\ hcKinds \in UNION {[1..K -> ComponentKinds] : K \in 1..MaxK}
    /\ hcTrueGamma \in GammaValues
    /\ productionSign = [k \in 1..Len(hcKinds) |-> hcKinds[k].sign]
    /\ parameterValues = [k \in 1..Len(hcKinds) |-> ArrayRow(hcKinds[k])]
    /\ productionType \in Compositions(Len(hcKinds))
    /\ nState \in {Len(hcKinds), Len(hcKinds) + 1}
    /\ hcGamma \in {NaN, hcTrueGamma}
    /\ hcX \in [1..nState -> StateValues]
    /\ hcParameter = (IF hcGamma = NaN THEN <<hcTrueGamma>> ELSE <<>>)
                         \o ezcat_rows([k \in 1..Len(hcKinds) |-> VariableValues(hcKinds[k])])
    /\ productionComponentValues = <<>>
    /\ summandValues = <<>>
    /\ hcValue = 0
    /\ hcPc = "start"

CoordIdle ==
    /\ hcKinds = <<>>
    /\ hcTrueGamma = 0
    /\ productionSign = <<>>
    /\ parameterValues = <<>>
    /\ productionType = <<>>
    /\ nState = 0
    /\ hcGamma = 0
    /\ hcX = <<>>
    /\ hcParameter = <<>>
    /\ productionComponentValues = <<>>
    /\ summandValues = <<>>
    /\ hcValue = 0
    /\ hcPc = "idle"

coordFixed == <<hcKinds, hcTrueGamma, productionSign, parameterValues, productionType, nState,
                hcGamma, hcX, hcParameter>>

\* line 656
coord_components ==
    /\ hcPc = "start"
    /\ productionComponentValues' = evaluate_production_components(hcX, hcParameter)
    /\ hcPc' = "components"
    /\ UNCHANGED <<coordFixed, summandValues, hcValue>>
    /\ UNCHANGED exceptCoord

\* line 657
coord_summands ==
    /\ hcPc = "components"
    /\ summandValues' = evaluate_summand(productionComponentValues)
    /\ hcPc' = "summands"
    /\ UNCHANGED <<coordFixed, productionComponentValues, hcValue>>
    /\ UNCHANGED exceptCoord

\* lines 655, 658-662
coord_return ==
    /\ hcPc = "summands"
    /\ hcValue' = (0 - parse_gamma(hcParameter)) * hcX[1] + np_prod(summandValues)
    /\ hcPc' = "done"
    /\ UNCHANGED <<coordFixed, productionComponentValues, summandValues>>
    /\ UNCHANGED exceptCoord

CoordStep ==
    \/ coord_components
    \/ coord_summands
    \/ coord_return

\* The value of activation k as the coordinate was built: its own sign and
\* parameters, at the state variable it depends on.
ActivationValue(k) ==
    LET c == hcKinds[k]
        xk == hcX[Len(hcX) - Len(hcKinds) + k]
    IN  IF c.sign = -1
        THEN c.row[1] + (c.row[2] * c.row[3] ^ c.row[4]) \div (c.row[3] ^ c.row[4] + xk ^ c.row[4])
        ELSE c.row[1] + (c.row[2] * xk ^ c.row[4]) \div (xk ^ c.row[4] + c.row[3] ^ c.row[4])

\* The product, over the summands from the i-th on, of the sums of their
\* activation values; first is the index of the first activation of summand i.
RECURSIVE ProductOfSums(_, _)
ProductOfSums(i, first) ==
    IF i > Len(productionType) THEN 1
    ELSE SumSeq([m \in 1..productionType[i] |-> ActivationValue(first + m - 1)])
             * ProductOfSums(i + 1, first + productionType[i])

(* C20: the value of a HillCoordinate is -gamma * x[0] plus the product    *)
(* over the summands of the sum of the activation values of the summand,   *)
(* every activation taken at its own state variable with its own           *)
(* parameters, gamma being the fixed decay or parameter[0]; with a single  *)
(* summand it is -gamma * x[0] plus the sum of all K activation values.    *)
CoordinateValue ==
    hcPc = "done" =>
        /\ hcValue = (0 - hcTrueGamma) * hcX[1] + ProductOfSums(1, 1)
        /\ Len(productionType) = 1 =>
               hcValue = (0 - hcTrueGamma) * hcX[1]
                             + SumSeq([k \in 1..Len(hcKinds) |-> ActivationValue(k)])

CoordinateWitness ==
    /\ hcPc = "done"
    /\ Len(hcKinds) = 3
    /\ productionType = <<1, 2>>
    /\ hcGamma = NaN
    /\ nState = 4
    /\ \E k \in 1..3 : hcKinds[k].variable = {2, 3}
    /\ \E k \in 1..3 : hcKinds[k].variable = {}
    /\ \E i, j \in 2..4 : hcX[i] # hcX[j]

\* lines 594-596
nParameter == SumSeq(nParameterByProductionIndex) + (IF gammaIsVariable THEN 1 ELSE 0)

\* The number of variable parameters component k was built with, and the
\* position of gamma's slot, as the coordinate was built.
VariableCount(k) == Cardinality(hcKinds[k].variable)

GammaOffset == IF hcGamma = NaN THEN 1 ELSE 0

(* C21: nParameter is the gamma offset plus the number of variable entries *)
(* of the parameter table; productionParameterIndexRange starts at the     *)
(* gamma offset, never decreases and ends at nParameter; parse_parameters  *)
(* gives component j the contiguous slice [range[j], range[j+1]), which    *)
(* holds as many entries as the component has variable parameters, and     *)
(* reads gamma at position 0 when it is variable.                          *)
CoordinateParameterLayout ==
    hcPc # "idle" =>
        LET K == Len(hcKinds)
            range == productionParameterIndexRange
        IN  /\ nParameter = GammaOffset + SumSeq([k \in 1..K |-> VariableCount(k)])
            /\ Len(range) = K + 1
            /\ range[1] = GammaOffset
            /\ range[K + 1] = nParameter
            /\ \A j \in 1..K :
                /\ range[j] <= range[j + 1]
                /\ Len(ParameterSlice(hcParameter, j)) = VariableCount(j)
                /\ ParameterSlice(hcParameter, j) =
                       [m \in 1..VariableCount(j) |-> hcParameter[range[j] + m]]
                /\ ParameterSlice(hcParameter, j) = VariableValues(hcKinds[j])
            /\ hcGamma = NaN => parse_gamma(hcParameter) = hcParameter[1]

CoordinateLayoutWitness ==
    /\ hcPc = "components"
    /\ Len(hcKinds) = 3
    /\ hcGamma = NaN
    /\ VariableCount(1) = 0
    /\ VariableCount(2) = 4
    /\ VariableCount(3) = 2
    /\ productionParameterIndexRange = <<1, 1, 5, 7>>

(***************************************************************************)
(* HillModel.__init__, state_variable_selection, unpack_parameter and      *)
(* unpack_state (hill_model.py, 1287-1362).  Global indices count from 0   *)
(* as in the code; lists are sequences holding them.                       *)
(***************************************************************************)
MaxModelDim == 3     \* largest dimension of a model
MaxEdges == 2        \* most production terms of a coordinate of a model

\* edges whose parameters are all variable, or all fixed
EdgeKinds == {c \in ComponentKinds : Cardinality(c.variable) # 2}

\* range(a, b)
PyRange(a, b) == [k \in 1..(b - a) |-> a + k - 1]

SeqToSet(s) == {s[k] : k \in 1..Len(s)}

\* line 1304: len(set(productionIndex[j] + [j]))
coordinateDims(indexLists) ==
    [j \in 1..Len(indexLists) |-> Cardinality(SeqToSet(indexLists[j]) \cup {j - 1})]

\* lines 594-596 for coordinate j of the model: its variable parameters
CoordinateNParameter(j) ==
    (IF mdGamma[j] = NaN THEN 1 ELSE 0)
        + SumSeq([k \in 1..Len(mdProductionIndex[j]) |->
                     Cardinality(mdKinds[mdProductionIndex[j][k] + 1].variable)])

\* the IndexError of line 1328, as a selection no index list equals
SelectionRaises == <<0 - 1>>

\* lines 1321-1332, idx counted from 0
state_variable_selection_Prepend(idx) == <<idx>> \o mdProductionIndex[idx + 1]
state_variable_selection(idx) ==
    LET own == mdProductionIndex[idx + 1] IN
    IF idx \in SeqToSet(own)
    THEN IF own[1] = idx THEN own ELSE SelectionRaises
    ELSE <<idx>> \o own

\* lines 1313-1318
parameterIndexByCoordinate_FromZero(nParameterByCoordinate) ==
    [idx \in 1..Len(nParameterByCoordinate) |-> PyRange(0, nParameterByCoordinate[idx])]
parameterIndexByCoordinate(nParameterByCoordinate) ==
    LET parameterIndexEndpoints == <<0>> \o cumsum(nParameterByCoordinate)
    IN  [idx \in 1..Len(nParameterByCoordinate) |->
            PyRange(parameterIndexEndpoints[idx], parameterIndexEndpoints[idx + 1])]

NoModel ==
    [kind |-> "none", dims |-> <<>>, stateIndexByCoordinate |-> <<>>,
     nParameterByCoordinate |-> <<>>, parameterIndexByCoordinate |-> <<>>, nParameter |-> 0]

ModelRaises == [NoModel EXCEPT !.kind = "raise"]

NotUnpacked == [state |-> <<>>, parameter |-> <<>>]

\* a vector indexed by a list of positions counted from 0
Take(vector, idx) == [k \in 1..Len(idx) |-> vector[idx[k] + 1]]

ModelInit ==
    /\ \E n \in 1..MaxModelDim :
        /\ mdGamma \in [1..n -> {NaN, 1}]
        /\ mdProductionIndex \in [1..n -> UNION {[1..K -> 0..(n - 1)] : K \in 1..MaxEdges}]
        /\ mdKinds \in [1..n -> EdgeKinds]
    /\ mdModel = NoModel
    /\ mdUnpacked = NotUnpacked
    /\ mdPc = "start"

ModelIdle ==
    /\ mdGamma = <<>>
    /\ mdProductionIndex = <<>>
    /\ mdKinds = <<>>
    /\ mdModel = NoModel
    /\ mdUnpacked = NotUnpacked
    /\ mdPc = "idle"

\* lines 1303-1319
hillmodel_init ==
    /\ mdPc = "start"
    /\ LET n == Len(mdGamma)
           selection == [i \in 1..n |-> state_variable_selection(i - 1)]
           counts == [i \in 1..n |-> CoordinateNParameter(i)]
       IN  IF \E i \in 1..n : selection[i] = SelectionRaises
           THEN /\ mdModel' = ModelRaises
                /\ mdPc' = "raised"
           ELSE /\ mdModel' = [kind |-> "model",
                               dims |-> coordinateDims(mdProductionIndex),
                               stateIndexByCoordinate |-> selection,
                               nParameterByCoordinate |-> counts,
                               parameterIndexByCoordinate |-> parameterIndexByCoordinate(counts),
                               nParameter |-> SumSeq(counts)]
                /\ mdPc' = "built"
    /\ UNCHANGED <<mdGamma, mdProductionIndex, mdKinds, mdUnpacked>>
    /\ UNCHANGED exceptModel

\* lines 1352-1362, for the vectors x = (0, 1, ...) and parameter = (0, 1, ...)
\* of the sizes verify_call asks for, so that an entry names its position
hillmodel_unpack ==
    /\ mdPc = "built"
    /\ LET x == PyRange(0, Len(mdGamma))
           parameter == PyRange(0, mdModel.nParameter)
       IN  mdUnpacked' =
               [state |-> [i \in 1..Len(mdGamma) |-> Take(x, mdModel.stateIndexByCoordinate[i])],
                parameter |-> [i \in 1..Len(mdGamma) |->
                                  Take(parameter, mdModel.parameterIndexByCoordinate[i])]]
    /\ mdPc' = "unpacked"
    /\ UNCHANGED <<mdGamma, mdProductionIndex, mdKinds, mdModel>>
    /\ UNCHANGED exceptModel

ModelStep ==
    \/ hillmodel_init
    \/ hillmodel_unpack

\* The variable parameters coordinate i was given, counted from the inputs.
VariableOf(i) ==
    (IF mdGamma[i] = NaN THEN 1 ELSE 0)
        + SumSeq([k \in 1..Len(mdProductionIndex[i]) |->
                     IF mdKinds[mdProductionIndex[i][k] + 1].variable = {} THEN 0 ELSE 4])

RECURSIVE VariableBefore(_)
VariableBefore(i) == IF i = 1 THEN 0 ELSE VariableBefore(i - 1) + VariableOf(i - 1)

(* C22: the parameter index lists of a HillModel are contiguous, in        *)
(* coordinate order and pairwise disjoint, the i-th has the length of the  *)
(* i-th coordinate's nParameter, and together they are 0..nParameter-1, so *)
(* unpack_parameter hands every entry of the parameter vector to exactly   *)
(* one coordinate.                                                         *)
ModelParameterPartition ==
    mdPc \in {"built", "unpacked"} =>
        LET n == Len(mdGamma)
            lists == mdModel.parameterIndexByCoordinate
        IN  /\ Len(lists) = n
            /\ \A i \in 1..n :
                   lists[i] = [k \in 1..VariableOf(i) |-> VariableBefore(i) + k - 1]
            /\ \A i, j \in 1..n : i # j => SeqToSet(lists[i]) \cap SeqToSet(lists[j]) = {}
            /\ UNION {SeqToSet(lists[i]) : i \in 1..n} = 0..(mdModel.nParameter - 1)
            /\ mdPc = "unpacked" =>
                   \A p \in 0..(mdModel.nParameter - 1) :
                       Cardinality({<<i, k>> \in (1..n) \X (1..(4 * MaxEdges + 1)) :
                                       /\ k <= Len(mdUnpacked.parameter[i])
                                       /\ mdUnpacked.parameter[i][k] = p}) = 1

\* three coordinates with 5, 0 and 4 parameters, two of them reading state 0
ModelPartitionWitness ==
    /\ mdPc = "unpacked"
    /\ mdUnpacked.parameter = <<<<0, 1, 2, 3, 4>>, <<>>, <<5, 6, 7, 8>>>>
    /\ \E i, j \in 1..3 :
           i # j /\ SeqToSet(mdUnpacked.state[i]) \cap SeqToSet(mdUnpacked.state[j]) # {}

SelfEdgeNotFirst(i) ==
    \E k \in 2..Len(mdProductionIndex[i]) : mdProductionIndex[i][k] = i - 1

NoRepeats(s) == Cardinality(SeqToSet(s)) = Len(s)

MaxProd == 4         \* most Hill components of a differentiated coordinate
MaxOrder == 3        \* largest diffOrder

NoIndex == 0

SummandValueSet == {1, 2}

\* set_summand for a production type: the components of every summand
SummandBlocks(type) ==
    LET sumEndpoints == <<0>> \o cumsum(type)
    IN  [i \in 1..Len(type) |-> {sumEndpoints[i] + m : m \in 1..type[i]}]

\* lines 702-706
summand_index(type, componentIdx) ==
    CHOOSE i \in 1..Len(type) : componentIdx \in SummandBlocks(type)[i]

\* lines 735-745: every multi-index whose components come from different
\* summands, taken in any order
nonzero_index_Combinations(type, order) ==
    LET blocks == SummandBlocks(type)
        tuples == {t \in [1..order -> 1..Len(type)] : \A a, b \in 1..order : a < b => t[a] < t[b]}
    IN  UNION {{idx \in [1..order -> 1..SumSeq(type)] : \A a \in 1..order : idx[a] \in blocks[t[a]]} :
                  t \in tuples}
nonzero_index(type, order) ==
    LET blocks == SummandBlocks(type)
        summandTuples == {t \in [1..order -> 1..Len(type)] : \A a, b \in 1..order : a # b => t[a] # t[b]}
    IN  UNION {{idx \in [1..order -> 1..SumSeq(type)] : \A a \in 1..order : idx[a] \in blocks[t[a]]} :
                  t \in summandTuples}

\* np.zeros(order * [K]) with the entries at the given indices set to 1
IndicatorTensor(K, order, indices) ==
    [idx \in [1..order -> 1..K] |-> IF idx \in indices THEN 1 ELSE 0]

\* line 751: np.ones(self.nProduction)
AllSumGradient_PerSummand(K, nSummand) == [k \in 1..nSummand |-> 1]
AllSumGradient(K, nSummand) == [k \in 1..K |-> 1]

DiffReturns(kind, value) == [kind |-> kind, value |-> value]

DiffRaises == [kind |-> "raise", value |-> <<>>]

DiffPending == [kind |-> "pending", value |-> <<>>]

\* lines 746-796: diffIndex is None
FullDifferential(type, values, diffOrder) ==
    LET K == SumSeq(type)
        nSummand == Len(type)
        fullProduct == np_prod(values)
        DxProducts == [m \in 1..nSummand |-> fullProduct \div values[m]]
    IN  CASE diffOrder = 1 ->
                 IF nSummand = 1 THEN DiffReturns("vector", AllSumGradient(K, nSummand))
                 ELSE DiffReturns("vector", [k \in 1..K |-> DxProducts[summand_index(type, k)]])
          [] diffOrder = 2 ->
                 IF nSummand = 1 THEN DiffReturns("tensor", IndicatorTensor(K, 2, {}))
                 ELSE IF nSummand = 2
                 THEN DiffReturns("tensor", IndicatorTensor(K, 2, nonzero_index(type, 2)))
                 ELSE DiffReturns("tensor",
                          [idx \in [1..2 -> 1..K] |->
                              LET row == summand_index(type, idx[1])
                                  col == summand_index(type, idx[2])
                              IN  IF row = col THEN 0
                                  ELSE DxProducts[row] \div values[col]])
          [] diffOrder = 3 ->
                 IF nSummand <= 2 THEN DiffReturns("tensor", IndicatorTensor(K, 3, {}))
                 ELSE IF nSummand = 3
                 THEN DiffReturns("tensor", IndicatorTensor(K, 3, nonzero_index(type, 3)))
                 ELSE DiffRaises
          [] OTHER -> DiffReturns("None", <<>>)

\* lines 798-811: a single partial derivative
SinglePartial(type, values, diffOrder, diffIndex) ==
    IF diffOrder = 1
    THEN IF Len(type) = 1 THEN DiffReturns("scalar", 1)
         ELSE LET I_k == summand_index(type, diffIndex)
              IN  DiffReturns("scalar",
                      np_prod([m \in 1..Len(type) |-> IF m = I_k THEN 1 ELSE values[m]]))
    ELSE DiffRaises

DiffProdInit ==
    /\ dpType \in UNION {Compositions(K) : K \in 1..MaxProd}
    /\ dpSummandValues \in [1..Len(dpType) -> SummandValueSet]
    /\ dpOrder \in 1..MaxOrder
    /\ dpIndex \in {NoIndex} \cup 1..SumSeq(dpType)
    /\ dpResult = DiffPending

DiffProdIdle ==
    /\ dpType = <<>>
    /\ dpSummandValues = <<>>
    /\ dpOrder = 0
    /\ dpIndex = NoIndex
    /\ dpResult = [kind |-> "idle", value |-> <<>>]

diff_production ==
    /\ dpResult = DiffPending
    /\ dpResult' = IF dpIndex = NoIndex
                   THEN FullDifferential(dpType, dpSummandValues, dpOrder)
                   ELSE SinglePartial(dpType, dpSummandValues, dpOrder, dpIndex)
    /\ UNCHANGED <<dpType, dpSummandValues, dpOrder, dpIndex>>
    /\ UNCHANGED exceptDiffProd

DiffProdStep ==
    \/ diff_production

\* The number of components, and the summand a component belongs to, read
\* off the production type.
DiffK == SumSeq(dpType)

InSummand(k) ==
    CHOOSE i \in 1..Len(dpType) :
        /\ SumSeq(SubSeq(dpType, 1, i - 1)) < k
        /\ k <= SumSeq(SubSeq(dpType, 1, i))

(* C24: for a coordinate with a single summand, diff_production of order 1 *)
(* returns 1 for every production index (K ones, or the scalar 1 for one   *)
(* index) and diff_production of order 2 returns the all-zero K-by-K       *)
(* tensor, whatever the point of evaluation.                               *)
AllSumDerivatives ==
    (Len(dpType) = 1 /\ dpResult # DiffPending) =>
        /\ (dpOrder = 1 /\ dpIndex = NoIndex) =>
               /\ dpResult.kind = "vector"
               /\ dpResult.value = [k \in 1..DiffK |-> 1]
        /\ (dpOrder = 1 /\ dpIndex # NoIndex) =>
               /\ dpResult.kind = "scalar"
               /\ dpResult.value = 1
        /\ (dpOrder = 2 /\ dpIndex = NoIndex) =>
               /\ dpResult.kind = "tensor"
               /\ DOMAIN dpResult.value = [1..2 -> 1..DiffK]
               /\ \A idx \in [1..2 -> 1..DiffK] : dpResult.value[idx] = 0

AllSumWitness ==
    /\ dpType = <<MaxProd>>
    /\ dpSummandValues = <<2>>
    /\ dpOrder = 2
    /\ dpIndex = NoIndex
    /\ dpResult.kind = "tensor"

(* C25: diff_production of order 3 returns the all-zero K x K x K tensor   *)
(* for at most 2 summands; for exactly 3 summands entry (i, j, k) is 1     *)
(* exactly when i, j and k lie in three different summands and 0           *)
(* otherwise; for 4 or more summands it raises.  A request for a single    *)
(* index of order above 1 raises too.                                      *)
ThirdDerivativeOfProduction ==
    dpResult # DiffPending =>
        /\ (dpOrder = 3 /\ dpIndex = NoIndex /\ Len(dpType) <= 3) =>
               /\ dpResult.kind = "tensor"
               /\ DOMAIN dpResult.value = [1..3 -> 1..DiffK]
               /\ \A idx \in [1..3 -> 1..DiffK] :
                      dpResult.value[idx] =
                          IF /\ Len(dpType) = 3
                             /\ Cardinality({InSummand(idx[1]), InSummand(idx[2]), InSummand(idx[3])}) = 3
                          THEN 1 ELSE 0
        /\ (dpOrder = 3 /\ dpIndex = NoIndex /\ Len(dpType) >= 4) => dpResult = DiffRaises
        /\ (dpOrder > 1 /\ dpIndex # NoIndex) => dpResult = DiffRaises

ThirdDerivativeWitness ==
    /\ dpType = <<1, 2, 1>>
    /\ dpOrder = 3
    /\ dpIndex = NoIndex
    /\ dpResult.kind = "tensor"
    /\ dpResult.value[<<4, 1, 3>>] = 1
    /\ dpResult.value[<<2, 3, 1>>] = 0

-----------------------------------------------------------------------------
(* Shapes of the derivatives of a HillCoordinate.  An array is represented  *)
(* by its shape, the sequence of its axis lengths; the coordinate is the    *)
(* one of the coordinate variables above (nState, productionType,           *)
(* parameterValues, hcGamma).                                               *)

Array(shape) == [kind |-> "array", shape |-> shape]

ShapeRaises == [kind |-> "raise", shape |-> <<>>]

ShapePending == [kind |-> "pending", shape |-> <<>>]

\* subscript letters of the einsum calls in alphabetical order
Alphabet == <<"i", "j", "k", "l", "q", "r">>

\* np.einsum(subscripts, *operands) without '->': the output axes are the
\* letters that appear exactly once, in alphabetical order; a letter bound to
\* two different lengths raises
einsum(subscripts, operands) ==
    LET Occ == {ap \in (1..Len(subscripts)) \X (1..Len(Alphabet)) :
                    ap[2] <= Len(subscripts[ap[1]])}
        occOf(letter) == {ap \in Occ : subscripts[ap[1]][ap[2]] = letter}
        dimsOf(letter) == {operands[ap[1]].shape[ap[2]] : ap \in occOf(letter)}
        once(letter) == Cardinality(occOf(letter)) = 1
        out == SelectSeq(Alphabet, once)
    IN  IF \/ \E a \in 1..Len(operands) : operands[a].kind # "array"
           \/ \E a \in 1..Len(operands) : Len(operands[a].shape) # Len(subscripts[a])
           \/ \E letter \in SeqToSet(Alphabet) : Cardinality(dimsOf(letter)) > 1
        THEN ShapeRaises
        ELSE Array([a \in 1..Len(out) |-> CHOOSE d \in dimsOf(out[a]) : TRUE])

\* term1 + term2 + ... : the terms of each sum have one shape
AddTerms(terms) ==
    IF \E a \in 1..Len(terms) : terms[a] # terms[1] THEN ShapeRaises ELSE terms[1]

\* target[...] = source of numpy: the source is broadcast to the shape of the
\* indexed part of the target, aligned at the last axis
BroadcastsTo(source, target) ==
    /\ Len(source) <= Len(target)
    /\ \A a \in 1..Len(source) :
        source[a] \in {1, target[a + Len(target) - Len(source)]}

\* self.nParameter - self.gammaIsVariable
nComponentParameter == nParameter - (IF gammaIsVariable THEN 1 ELSE 0)

\* diff_production(x, parameter, diffOrder) without diffIndex
diff_production_shape(diffOrder) ==
    IF diffOrder = 3 /\ \E a \in 1..Len(productionType) : productionType[a] > 3
    THEN ShapeRaises
    ELSE Array(Repeat(nProduction, diffOrder))

\* diff_production_component(x, parameter, [xOrder, parameterOrder]) with
\* fullTensor: list(zip(*[]))[0] raises when no component parameter is variable
diff_production_component(xOrder, parameterOrder) ==
    IF parameterOrder = 0 THEN Array(Repeat(nProduction, 1 + xOrder))
    ELSE IF nComponentParameter = 0 THEN ShapeRaises
    ELSE Array(Repeat(nProduction, 1 + xOrder) \o Repeat(nComponentParameter, parameterOrder))


\* if self.gammaIsVariable: D = np.zeros(zerosShape); D[..., 1:] = DpoH; return D
\* else: return DpoH
EmbedGamma(DpoH, zerosShape, targetShape) ==
    IF DpoH.kind # "array" THEN ShapeRaises
    ELSE IF gammaIsVariable
         THEN IF BroadcastsTo(DpoH.shape, targetShape)
              THEN Array(zerosShape) ELSE ShapeRaises
         ELSE DpoH

dx_shape == Array(<<nState>>)

diff_shape == Array(<<nParameter>>)

dx2_shape == Array(<<nState, nState>>)

\* np.column_stack over the parameter indices; an empty list raises
dxdiff_shape ==
    IF nParameter = 0 THEN ShapeRaises ELSE Array(<<nState, nParameter>>)

diff2_shape ==
    LET DlambdaH == diff_production_component(0, 1)
        D2lambdaH == diff_production_component(0, 2)
        Dp == diff_production_shape(1)
        D2p == diff_production_shape(2)
        term1 == einsum(<<<<"i", "k">>, <<"k", "l">>, <<"i", "j">>>>, <<D2p, DlambdaH, DlambdaH>>)
        term2 == einsum(<<<<"i">>, <<"i", "j", "k">>>>, <<Dp, D2lambdaH>>)
    IN  EmbedGamma(AddTerms(<<term1, term2>>), <<nParameter, nParameter>>,
                   <<nParameter - 1, nParameter - 1>>)

dx3_shape ==
    LET DxH == diff_production_component(1, 0)
        DxxH == diff_production_component(2, 0)
        DxxxH == diff_production_component(3, 0)
        Dp == diff_production_shape(1)
        D2p == diff_production_shape(2)
        D3p == diff_production_shape(3)
        term1 == einsum(<<<<"i", "k", "q">>, <<"q", "r">>, <<"k", "l">>, <<"i", "j">>>>, <<D3p, DxH, DxH, DxH>>)
        term2 == einsum(<<<<"i", "k">>, <<"k", "l">>, <<"i", "j", "q">>>>, <<D2p, DxH, DxxH>>)
        term3 == einsum(<<<<"i", "k">>, <<"i", "j">>, <<"k", "l", "q">>>>, <<D2p, DxH, DxxH>>)
        term4 == einsum(<<<<"i", "l">>, <<"l", "q">>, <<"i", "j", "k">>>>, <<D2p, DxH, DxxH>>)
        term5 == einsum(<<<<"i">>, <<"i", "j", "k", "l">>>>, <<Dp, DxxxH>>)
    IN  AddTerms(<<term1, term2, term3, term4, term5>>)

dx2diff_shape ==
    LET DxH == diff_production_component(1, 0)
        DxxH == diff_production_component(2, 0)
        DlambdaH == diff_production_component(0, 1)
        Dlambda_xH == diff_production_component(1, 1)
        Dlambda_xxH == diff_production_component(2, 1)
        Dp == diff_production_shape(1)
        D2p == diff_production_shape(2)
        D3p == diff_production_shape(3)
        term1 == einsum(<<<<"i", "k", "q">>, <<"q", "r">>, <<"k", "l">>, <<"i", "j">>>>, <<D3p, DlambdaH, DxH, DxH>>)
        term2 == einsum(<<<<"i", "k">>, <<"k", "l">>, <<"i", "j", "q">>>>, <<D2p, DxH, Dlambda_xH>>)
        term3 == einsum(<<<<"i", "k">>, <<"i", "j">>, <<"k", "l", "q">>>>, <<D2p, DxH, Dlambda_xH>>)
        term4 == einsum(<<<<"i", "l">>, <<"l", "q">>, <<"i", "j", "k">>>>, <<D2p, DlambdaH, DxxH>>)
        term5 == einsum(<<<<"i">>, <<"i", "j", "k", "l">>>>, <<Dp, Dlambda_xxH>>)
    IN  EmbedGamma(AddTerms(<<term1, term2, term3, term4, term5>>),
                   <<nState, nState, nParameter>>, <<nState, nState, nParameter - 1>>)

dxdiff2_shape ==
    LET DxH == diff_production_component(1, 0)
        DlambdaH == diff_production_component(0, 1)
        Dlambda_xH == diff_production_component(1, 1)
        D2lambdaH == diff_production_component(0, 2)
        D2lambda_xH == diff_production_component(1, 2)
        Dp == diff_production_shape(1)
        D2p == diff_production_shape(2)
        D3p == diff_production_shape(3)
        term1 == einsum(<<<<"i", "k", "q">>, <<"q", "r">>, <<"k", "l">>, <<"i", "j">>>>, <<D3p, DlambdaH, DlambdaH, DxH>>)
        term2 == einsum(<<<<"i", "k">>, <<"k", "l">>, <<"i", "j", "q">>>>, <<D2p, DlambdaH, Dlambda_xH>>)
        term3 == einsum(<<<<"i", "k">>, <<"i", "j">>, <<"k", "l", "q">>>>, <<D2p, DxH, D2lambdaH>>)
        term4 == einsum(<<<<"i", "l">>, <<"l", "q">>, <<"i", "j", "k">>>>, <<D2p, DlambdaH, Dlambda_xH>>)
        term5 == einsum(<<<<"i">>, <<"i", "j", "k", "l">>>>, <<Dp, D2lambda_xH>>)
    IN  EmbedGamma(AddTerms(<<term1, term2, term3, term4, term5>>),
                   <<nState, nParameter, nParameter>>, <<nState, nParameter - 1, nParameter - 1>>)

ShapeInit ==
    /\ dvMethod = ""
    /\ dvResult = ShapePending

ShapeIdle ==
    /\ dvMethod = ""
    /\ dvResult = ShapePending

call_dx ==
    /\ dvMethod = ""
    /\ dvMethod' = "dx"
    /\ dvResult' = dx_shape
    /\ UNCHANGED exceptShape

call_diff ==
    /\ dvMethod = ""
    /\ dvMethod' = "diff"
    /\ dvResult' = diff_shape
    /\ UNCHANGED exceptShape

call_dx2 ==
    /\ dvMethod = ""
    /\ dvMethod' = "dx2"
    /\ dvResult' = dx2_shape
    /\ UNCHANGED exceptShape

call_dxdiff ==
    /\ dvMethod = ""
    /\ dvMethod' = "dxdiff"
    /\ dvResult' = dxdiff_shape
    /\ UNCHANGED exceptShape

call_diff2 ==
    /\ dvMethod = ""
    /\ dvMethod' = "diff2"
    /\ dvResult' = diff2_shape
    /\ UNCHANGED exceptShape

call_dx3 ==
    /\ dvMethod = ""
    /\ dvMethod' = "dx3"
    /\ dvResult' = dx3_shape
    /\ UNCHANGED exceptShape

call_dx2diff ==
    /\ dvMethod = ""
    /\ dvMethod' = "dx2diff"
    /\ dvResult' = dx2diff_shape
    /\ UNCHANGED exceptShape

call_dxdiff2 ==
    /\ dvMethod = ""
    /\ dvMethod' = "dxdiff2"
    /\ dvResult' = dxdiff2_shape
    /\ UNCHANGED exceptShape

ShapeStep ==
    \/ call_dx
    \/ call_diff
    \/ call_dx2
    \/ call_dxdiff
    \/ call_diff2
    \/ call_dx3
    \/ call_dx2diff
    \/ call_dxdiff2

\* the shape of a derivative in the coordinate's full index space
FullIndexShape(method) ==
    CASE method = "dx" -> <<nState>>
      [] method = "diff" -> <<nParameter>>
      [] method = "dx2" -> <<nState, nState>>
      [] method = "dxdiff" -> <<nState, nParameter>>
      [] method = "diff2" -> <<nParameter, nParameter>>
      [] method = "dx3" -> <<nState, nState, nState>>
      [] method = "dx2diff" -> <<nState, nState, nParameter>>
      [] method = "dxdiff2" -> <<nState, nParameter, nParameter>>

\* C26: every derivative of every coordinate, with or without a self-edge and
\* with gamma fixed or variable, is returned as an array whose state axes have
\* length nState and whose parameter axes have length nParameter
DerivativesInFullIndexSpace ==
    dvMethod # "" => dvResult = Array(FullIndexShape(dvMethod))

-----------------------------------------------------------------------------
(* Hopf.__call__ and Hopf.unpack_components (Hopf_bifurcation.py)           *)

MaxHopfDim == 2      \* largest dimension of the model of a Hopf constraint
MaxHopfPar == 2      \* most parameters of that model

HopfEntries == {0, 1}

\* u[a:b] of python for 0 <= a, 0 <= b
PySlice(u, a, b) == SubSeq(u, a + 1, Min2(b, Len(u)))

\* self.mapDimension = 3 * hillModel.dimension + 1
mapDimension == 3 * hfDimension + 1


\* return u[:n], u[n:2 * n], u[2 * n:]
unpack_components(u) ==
    LET n == hfDimension
    IN  <<PySlice(u, 0, n), PySlice(u, n, 2 * n), PySlice(u, 2 * n, Len(u))>>

HopfPending == [kind |-> "pending", length |-> 0, parts |-> <<>>]

HopfRaises(error) == [kind |-> error, length |-> 0, parts |-> <<>>]

HopfReturns(length, parts) == [kind |-> "array", length |-> length, parts |-> parts]

\* Hopf.__call__(u): the tuple that unpack_components returns is assigned to
\* five names, which raises ValueError unless it has five elements; g1, g2
\* and g3 have the length of the state vector, g4 is a scalar
hopf_call_value(u) ==
    LET parts == unpack_components(u)
    IN  IF Len(parts) # 5 THEN HopfRaises("ValueError")
        ELSE LET stateVector == parts[1]
                 g1 == Len(stateVector)
                 g2 == Len(stateVector)
                 g3 == Len(stateVector)
                 g4 == 1
             IN  HopfReturns(g1 + g2 + g3 + g4, [k \in 1..5 |-> Len(parts[k])])

HopfInit ==
    /\ hfDimension \in 1..MaxHopfDim
    /\ hfNParameter \in 0..MaxHopfPar
    /\ hfU \in [1..(3 * hfDimension + 1 + hfNParameter) -> HopfEntries]
    /\ hfResult = HopfPending

HopfIdle ==
    /\ hfDimension = 0
    /\ hfNParameter = 0
    /\ hfU = <<>>
    /\ hfResult = HopfPending

hopf_call ==
    /\ hfResult = HopfPending
    /\ hfResult' = hopf_call_value(hfU)
    /\ UNCHANGED <<hfDimension, hfNParameter, hfU>>
    /\ UNCHANGED exceptHopf

HopfStep == hopf_call

\* C27: Hopf.__call__(u) splits every u of length 3n+1+m into parts of sizes
\* n, n, n, 1 and m and returns a vector of length 3n+1 = mapDimension
HopfCallReturnsMap ==
    hfResult # HopfPending =>
        /\ hfResult.kind = "array"
        /\ hfResult.parts = <<hfDimension, hfDimension, hfDimension, 1, hfNParameter>>
        /\ hfResult.length = mapDimension

-----------------------------------------------------------------------------
(* HillComponent.__init__, add_parameter_call and image (hill_model.py)     *)

MaxComponents == 2   \* most HillComponent instances constructed

PARAMETER_NAMES == <<"ell", "delta", "theta", "hillCoefficient">>

ParameterNameSet == SeqToSet(PARAMETER_NAMES)

\* values given to fixed parameters, and entries of the parameter slices
FixedValues == {1, 2}
SliceValues == {3, 4}

\* the names of PARAMETER_NAMES that are not fixed, in their order
variableParametersOf(fixedNames) ==
    LET isVariable(name) == name \notin fixedNames
    IN  SelectSeq(PARAMETER_NAMES, isVariable)

\* HillComponent(productionSign, **kwargs): every keyword becomes an instance
\* attribute holding the fixed value
NewComponent(fixedNames, value) ==
    [fixed |-> [name \in fixedNames |-> value],
     variableParameters |-> variableParametersOf(fixedNames)]

\* add_parameter_call for idx in range(len(variableParameters)):
\* setattr(HillComponent, parameterName, call_function) replaces the accessor
\* of that name on the class, for every instance
InstallCalls(table, variableParameters) ==
    [name \in ParameterNameSet |->
        IF \E idx \in 1..Len(variableParameters) : variableParameters[idx] = name
        THEN (CHOOSE idx \in 1..Len(variableParameters) : variableParameters[idx] = name) - 1
        ELSE table[name]]

ImageRaises == <<0 - 1>>

\* self.<name> for a fixed parameter (instance attribute), self.<name>(parameter)
\* for a variable one: the accessor found on the class returns
\* parameter[parameterIndex] for the index it was installed with
ReadParameter(table, component, name, parameter) ==
    IF name \in DOMAIN component.fixed THEN component.fixed[name]
    ELSE IF table[name] + 1 \in 1..Len(parameter) THEN parameter[table[name] + 1]
    ELSE 0 - 1

\* HillComponent.image(parameter)
image(table, component, parameter) ==
    LET ell == ReadParameter(table, component, "ell", parameter)
        delta == ReadParameter(table, component, "delta", parameter)
    IN  IF ell < 0 \/ delta < 0 THEN ImageRaises ELSE <<ell, ell + delta>>

ImageInit ==
    /\ classCall = [name \in ParameterNameSet |-> 0 - 1]
    /\ components = <<>>
    /\ imCalled = 0
    /\ imParameter = <<>>
    /\ imResult = <<>>

ImageIdle ==
    /\ classCall = [name \in ParameterNameSet |-> 0 - 1]
    /\ components = <<>>
    /\ imCalled = 0
    /\ imParameter = <<>>
    /\ imResult = <<>>

hillcomponent_init ==
    /\ Len(components) < MaxComponents
    /\ \E fixedNames \in SUBSET ParameterNameSet, value \in FixedValues :
        LET component == NewComponent(fixedNames, value)
        IN  /\ components' = Append(components, component)
            /\ classCall' = InstallCalls(classCall, component.variableParameters)
    /\ UNCHANGED <<imCalled, imParameter, imResult>>
    /\ UNCHANGED exceptImage

hillcomponent_image ==
    /\ \E i \in 1..Len(components) :
        \E parameter \in [1..Len(components[i].variableParameters) -> SliceValues] :
            /\ imCalled' = i
            /\ imParameter' = parameter
            /\ imResult' = image(classCall, components[i], parameter)
    /\ UNCHANGED <<classCall, components>>
    /\ UNCHANGED exceptImage

ImageStep ==
    \/ hillcomponent_init
    \/ hillcomponent_image

\* the value of a parameter of a component: its fixed value, or the entry of
\* the slice at the component's own slot for that name
OwnParameter(component, name, parameter) ==
    IF name \in DOMAIN component.fixed THEN component.fixed[name]
    ELSE parameter[CHOOSE idx \in 1..Len(component.variableParameters) :
                        component.variableParameters[idx] = name]

\* C28: whatever other components were constructed before or after it, the
\* image of a component is [ell, ell + delta] with ell and delta its own fixed
\* values or the entries of its own parameter slice at its own slots
ImageIsOwn ==
    imCalled # 0 =>
        LET component == components[imCalled]
            ell == OwnParameter(component, "ell", imParameter)
            delta == OwnParameter(component, "delta", imParameter)
        IN  imResult = <<ell, ell + delta>>

-----------------------------------------------------------------------------
(* HillCoordinate.parameter_to_production_index and                         *)
(* component_to_parameter_index (hill_model.py, 623-640), for the           *)
(* coordinate of the coordinate variables above.  Indices count from 0 as   *)
(* in the code.                                                             *)

IndexPending == [kind |-> "pending", component |-> 0, local |-> 0]

IndexRaises == [kind |-> "KeyboardInterrupt", component |-> 0, local |-> 0]

IndexPair(componentIndex, parameterIndex) ==
    [kind |-> "pair", component |-> componentIndex, local |-> parameterIndex]

\* np.searchsorted(a, linearIndex) without the half added
searchsorted_half_NoHalf(a, linearIndex) ==
    Cardinality({k \in 1..Len(a) : a[k] < linearIndex})

\* np.searchsorted(a, linearIndex + 0.5): how many entries of the sorted
\* array a lie below linearIndex + 0.5
searchsorted_half(a, linearIndex) ==
    Cardinality({k \in 1..Len(a) : 2 * a[k] < 2 * linearIndex + 1})

\* a[j] of python for -Len(a) <= j < Len(a)
PyIndex(a, j) == IF j < 0 THEN a[Len(a) + j + 1] ELSE a[j + 1]

parameter_to_production_index(linearIndex) ==
    IF gammaIsVariable /\ linearIndex = 0 THEN IndexRaises
    ELSE LET componentIndex == searchsorted_half(productionParameterIndexRange, linearIndex) - 1
             parameterIndex == linearIndex - PyIndex(productionParameterIndexRange, componentIndex)
         IN  IndexPair(componentIndex, parameterIndex)

component_to_parameter_index(componentIdx, localIdx) ==
    PyIndex(productionParameterIndexRange, componentIdx) + localIdx

IndexInit ==
    /\ piLinearIndex = 0 - 1
    /\ piPair = IndexPending
    /\ piBack = 0 - 1

IndexIdle ==
    /\ piLinearIndex = 0 - 1
    /\ piPair = IndexPending
    /\ piBack = 0 - 1

index_to_production ==
    /\ piPair = IndexPending
    /\ \E linearIndex \in 0..(nParameter - 1) :
        /\ piLinearIndex' = linearIndex
        /\ piPair' = parameter_to_production_index(linearIndex)
    /\ UNCHANGED piBack
    /\ UNCHANGED exceptIndex

index_to_parameter ==
    /\ piPair.kind = "pair"
    /\ piBack = 0 - 1
    /\ piBack' = component_to_parameter_index(piPair.component, piPair.local)
    /\ UNCHANGED <<piLinearIndex, piPair>>
    /\ UNCHANGED exceptIndex

IndexStep ==
    \/ index_to_production
    \/ index_to_parameter

\* C30: for a linear index other than that of a variable gamma,
\* parameter_to_production_index returns a component and a local index below
\* the number of variable parameters of that component, and
\* component_to_parameter_index maps the pair back to the linear index; for
\* the index 0 of a variable gamma it raises
ParameterIndexRoundTrip ==
    piPair # IndexPending =>
        IF hcGamma = NaN /\ piLinearIndex = 0
        THEN piPair = IndexRaises
        ELSE /\ piPair.kind = "pair"
             /\ piPair.component \in 0..(Len(hcKinds) - 1)
             /\ piPair.local \in 0..(VariableCount(piPair.component + 1) - 1)
             /\ piBack # 0 - 1 => piBack = piLinearIndex

\* the first variable parameter of the component that follows one without
\* variable parameters, mapped there and back
ParameterIndexWitness ==
    /\ piPair.kind = "pair"
    /\ piBack = piLinearIndex
    /\ piPair.component >= 1
    /\ VariableCount(piPair.component) = 0
    /\ piPair.local = 0

\* the index of a variable gamma was asked for
ParameterIndexGammaWitness ==
    /\ piPair = IndexRaises
    /\ piLinearIndex = 0

-----------------------------------------------------------------------------
(* Specifications: one per function under study                            *)

InitGuard ==
    /\ GuardInit
    /\ NewtonIdle
    /\ RootIdle
    /\ EqIdle
    /\ CountIdle
    /\ BisectIdle
    /\ EstimateIdle
    /\ SelectIdle
    /\ CoefIdle
    /\ SweepIdle
    /\ RegionIdle
    /\ SubsampleIdle
    /\ DatasetIdle
    /\ CoordIdle
    /\ ModelIdle
    /\ DiffProdIdle
    /\ ShapeIdle
    /\ HopfIdle
    /\ ImageIdle
    /\ IndexIdle
NextGuard == GuardStep
SpecGuard == InitGuard /\ [][NextGuard]_vars

InitNewton ==
    /\ NewtonInit
    /\ GuardIdle
    /\ RootIdle
    /\ EqIdle
    /\ CountIdle
    /\ BisectIdle
    /\ EstimateIdle
    /\ SelectIdle
    /\ CoefIdle
    /\ SweepIdle
    /\ RegionIdle
    /\ SubsampleIdle
    /\ DatasetIdle
    /\ CoordIdle
    /\ ModelIdle
    /\ DiffProdIdle
    /\ ShapeIdle
    /\ HopfIdle
    /\ ImageIdle
    /\ IndexIdle
NextNewton == SkinnyStep \/ FullStep
SpecNewton == InitNewton /\ [][NextNewton]_vars

InitRoot ==
    /\ RootInit
    /\ NewtonIdle
    /\ GuardIdle
    /\ EqIdle
    /\ CountIdle
    /\ BisectIdle
    /\ EstimateIdle
    /\ SelectIdle
    /\ CoefIdle
    /\ SweepIdle
    /\ RegionIdle
    /\ SubsampleIdle
    /\ DatasetIdle
    /\ CoordIdle
    /\ ModelIdle
    /\ DiffProdIdle
    /\ ShapeIdle
    /\ HopfIdle
    /\ ImageIdle
    /\ IndexIdle
NextRoot == RootStep \/ SkinnyStep
SpecRoot == InitRoot /\ [][NextRoot]_vars

InitEq ==
    /\ EqInit
    /\ GuardIdle
    /\ NewtonIdle
    /\ RootIdle
    /\ CountIdle
    /\ BisectIdle
    /\ EstimateIdle
    /\ SelectIdle
    /\ CoefIdle
    /\ SweepIdle
    /\ RegionIdle
    /\ SubsampleIdle
    /\ DatasetIdle
    /\ CoordIdle
    /\ ModelIdle
    /\ DiffProdIdle
    /\ ShapeIdle
    /\ HopfIdle
    /\ ImageIdle
    /\ IndexIdle
NextEq == EqStep
SpecEq == InitEq /\ [][NextEq]_vars

InitMerge ==
    /\ MergeInit
    /\ GuardIdle
    /\ NewtonIdle
    /\ RootIdle
    /\ CountIdle
    /\ BisectIdle
    /\ EstimateIdle
    /\ SelectIdle
    /\ CoefIdle
    /\ SweepIdle
    /\ RegionIdle
    /\ SubsampleIdle
    /\ DatasetIdle
    /\ CoordIdle
    /\ ModelIdle
    /\ DiffProdIdle
    /\ ShapeIdle
    /\ HopfIdle
    /\ ImageIdle
    /\ IndexIdle
NextMerge == MergeStep
SpecMerge == InitMerge /\ [][NextMerge]_vars

InitCount ==
    /\ CountInit
    /\ GuardIdle
    /\ NewtonIdle
    /\ RootIdle
    /\ EqIdle
    /\ BisectIdle
    /\ EstimateIdle
    /\ SelectIdle
    /\ CoefIdle
    /\ SweepIdle
    /\ RegionIdle
    /\ SubsampleIdle
    /\ DatasetIdle
    /\ CoordIdle
    /\ ModelIdle
    /\ DiffProdIdle
    /\ ShapeIdle
    /\ HopfIdle
    /\ ImageIdle
    /\ IndexIdle
NextCount == CountStep
SpecCount == InitCount /\ [][NextCount]_vars

InitBisect ==
    /\ BisectInit
    /\ GuardIdle
    /\ NewtonIdle
    /\ RootIdle
    /\ EqIdle
    /\ CountIdle
    /\ EstimateIdle
    /\ SelectIdle
    /\ CoefIdle
    /\ SweepIdle
    /\ RegionIdle
    /\ SubsampleIdle
    /\ DatasetIdle
    /\ CoordIdle
    /\ ModelIdle
    /\ DiffProdIdle
    /\ ShapeIdle
    /\ HopfIdle
    /\ ImageIdle
    /\ IndexIdle
NextBisect == BisectStep
SpecBisect == InitBisect /\ [][NextBisect]_vars

InitSaddle ==
    /\ EstimateInit
    /\ BisectIdle
    /\ GuardIdle
    /\ NewtonIdle
    /\ RootIdle
    /\ EqIdle
    /\ CountIdle
    /\ SelectIdle
    /\ CoefIdle
    /\ SweepIdle
    /\ RegionIdle
    /\ SubsampleIdle
    /\ DatasetIdle
    /\ CoordIdle
    /\ ModelIdle
    /\ DiffProdIdle
    /\ ShapeIdle
    /\ HopfIdle
    /\ ImageIdle
    /\ IndexIdle
NextSaddle == EstimateStep \/ BisectStep
SpecSaddle == InitSaddle /\ [][NextSaddle]_vars

InitSelect ==
    /\ SelectInit
    /\ GuardIdle
    /\ NewtonIdle
    /\ RootIdle
    /\ EqIdle
    /\ CountIdle
    /\ BisectIdle
    /\ EstimateIdle
    /\ CoefIdle
    /\ SweepIdle
    /\ RegionIdle
    /\ SubsampleIdle
    /\ DatasetIdle
    /\ CoordIdle
    /\ ModelIdle
    /\ DiffProdIdle
    /\ ShapeIdle
    /\ HopfIdle
    /\ ImageIdle
    /\ IndexIdle
NextSelect == SelectStep
SpecSelect == InitSelect /\ [][NextSelect]_vars

InitCoef ==
    /\ CoefInit
    /\ GuardIdle
    /\ NewtonIdle
    /\ RootIdle
    /\ EqIdle
    /\ CountIdle
    /\ BisectIdle
    /\ EstimateIdle
    /\ SelectIdle
    /\ SweepIdle
    /\ RegionIdle
    /\ SubsampleIdle
    /\ DatasetIdle
    /\ CoordIdle
    /\ ModelIdle
    /\ DiffProdIdle
    /\ ShapeIdle
    /\ HopfIdle
    /\ ImageIdle
    /\ IndexIdle
NextCoef == CoefStep
SpecCoef == InitCoef /\ [][NextCoef]_vars

InitSweep ==
    /\ SweepInit
    /\ GuardIdle
    /\ NewtonIdle
    /\ RootIdle
    /\ EqIdle
    /\ CountIdle
    /\ BisectIdle
    /\ EstimateIdle
    /\ SelectIdle
    /\ CoefIdle
    /\ RegionIdle
    /\ SubsampleIdle
    /\ DatasetIdle
    /\ CoordIdle
    /\ ModelIdle
    /\ DiffProdIdle
    /\ ShapeIdle
    /\ HopfIdle
    /\ ImageIdle
    /\ IndexIdle
NextSweep == SweepStep
SpecSweep == InitSweep /\ [][NextSweep]_vars

InitRegion ==
    /\ RegionInit
    /\ GuardIdle
    /\ NewtonIdle
    /\ RootIdle
    /\ EqIdle
    /\ CountIdle
    /\ BisectIdle
    /\ EstimateIdle
    /\ SelectIdle
    /\ CoefIdle
    /\ SweepIdle
    /\ SubsampleIdle
    /\ DatasetIdle
    /\ CoordIdle
    /\ ModelIdle
    /\ DiffProdIdle
    /\ ShapeIdle
    /\ HopfIdle
    /\ ImageIdle
    /\ IndexIdle
NextRegion == RegionStep
SpecRegion == InitRegion /\ [][NextRegion]_vars

InitSubsample ==
    /\ SubsampleInit
    /\ GuardIdle
    /\ NewtonIdle
    /\ RootIdle
    /\ EqIdle
    /\ CountIdle
    /\ BisectIdle
    /\ EstimateIdle
    /\ SelectIdle
    /\ CoefIdle
    /\ SweepIdle
    /\ RegionIdle
    /\ DatasetIdle
    /\ CoordIdle
    /\ ModelIdle
    /\ DiffProdIdle
    /\ ShapeIdle
    /\ HopfIdle
    /\ ImageIdle
    /\ IndexIdle
NextSubsample == SubsampleStep
SpecSubsample == InitSubsample /\ [][NextSubsample]_vars

InitDataset ==
    /\ DatasetInit
    /\ GuardIdle
    /\ NewtonIdle
    /\ RootIdle
    /\ EqIdle
    /\ CountIdle
    /\ BisectIdle
    /\ EstimateIdle
    /\ SelectIdle
    /\ CoefIdle
    /\ SweepIdle
    /\ RegionIdle
    /\ SubsampleIdle
    /\ CoordIdle
    /\ ModelIdle
    /\ DiffProdIdle
    /\ ShapeIdle
    /\ HopfIdle
    /\ ImageIdle
    /\ IndexIdle
NextDataset == DatasetStep
SpecDataset == InitDataset /\ [][NextDataset]_vars

InitCoord ==
    /\ CoordInit
    /\ GuardIdle
    /\ NewtonIdle
    /\ RootIdle
    /\ EqIdle
    /\ CountIdle
    /\ BisectIdle
    /\ EstimateIdle
    /\ SelectIdle
    /\ CoefIdle
    /\ SweepIdle
    /\ RegionIdle
    /\ SubsampleIdle
    /\ DatasetIdle
    /\ ModelIdle
    /\ DiffProdIdle
    /\ ShapeIdle
    /\ HopfIdle
    /\ ImageIdle
    /\ IndexIdle
NextCoord == CoordStep
SpecCoord == InitCoord /\ [][NextCoord]_vars

InitModel ==
    /\ ModelInit
    /\ GuardIdle
    /\ NewtonIdle
    /\ RootIdle
    /\ EqIdle
    /\ CountIdle
    /\ BisectIdle
    /\ EstimateIdle
    /\ SelectIdle
    /\ CoefIdle
    /\ SweepIdle
    /\ RegionIdle
    /\ SubsampleIdle
    /\ DatasetIdle
    /\ CoordIdle
    /\ DiffProdIdle
    /\ ShapeIdle
    /\ HopfIdle
    /\ ImageIdle
    /\ IndexIdle
NextModel == ModelStep
SpecModel == InitModel /\ [][NextModel]_vars

InitDiffProd ==
    /\ DiffProdInit
    /\ GuardIdle
    /\ NewtonIdle
    /\ RootIdle
    /\ EqIdle
    /\ CountIdle
    /\ BisectIdle
    /\ EstimateIdle
    /\ SelectIdle
    /\ CoefIdle
    /\ SweepIdle
    /\ RegionIdle
    /\ SubsampleIdle
    /\ DatasetIdle
    /\ CoordIdle
    /\ ModelIdle
    /\ ShapeIdle
    /\ HopfIdle
    /\ ImageIdle
    /\ IndexIdle
NextDiffProd == DiffProdStep
SpecDiffProd == InitDiffProd /\ [][NextDiffProd]_vars

InitShape ==
    /\ ShapeInit
    /\ CoordInit
    /\ GuardIdle
    /\ NewtonIdle
    /\ RootIdle
    /\ EqIdle
    /\ CountIdle
    /\ BisectIdle
    /\ EstimateIdle
    /\ SelectIdle
    /\ CoefIdle
    /\ SweepIdle
    /\ RegionIdle
    /\ SubsampleIdle
    /\ DatasetIdle
    /\ ModelIdle
    /\ DiffProdIdle
    /\ HopfIdle
    /\ ImageIdle
    /\ IndexIdle
NextShape == ShapeStep
SpecShape == InitShape /\ [][NextShape]_vars

InitHopf ==
    /\ HopfInit
    /\ GuardIdle
    /\ NewtonIdle
    /\ RootIdle
    /\ EqIdle
    /\ CountIdle
    /\ BisectIdle
    /\ EstimateIdle
    /\ SelectIdle
    /\ CoefIdle
    /\ SweepIdle
    /\ RegionIdle
    /\ SubsampleIdle
    /\ DatasetIdle
    /\ CoordIdle
    /\ ModelIdle
    /\ DiffProdIdle
    /\ ShapeIdle
    /\ ImageIdle
    /\ IndexIdle
NextHopf == HopfStep
SpecHopf == InitHopf /\ [][NextHopf]_vars

InitImage ==
    /\ ImageInit
    /\ GuardIdle
    /\ NewtonIdle
    /\ RootIdle
    /\ EqIdle
    /\ CountIdle
    /\ BisectIdle
    /\ EstimateIdle
    /\ SelectIdle
    /\ CoefIdle
    /\ SweepIdle
    /\ RegionIdle
    /\ SubsampleIdle
    /\ DatasetIdle
    /\ CoordIdle
    /\ ModelIdle
    /\ DiffProdIdle
    /\ ShapeIdle
    /\ HopfIdle
    /\ IndexIdle
NextImage == ImageStep
SpecImage == InitImage /\ [][NextImage]_vars

InitIndex ==
    /\ IndexInit
    /\ CoordInit
    /\ GuardIdle
    /\ NewtonIdle
    /\ RootIdle
    /\ EqIdle
    /\ CountIdle
    /\ BisectIdle
    /\ EstimateIdle
    /\ SelectIdle
    /\ CoefIdle
    /\ SweepIdle
    /\ RegionIdle
    /\ SubsampleIdle
    /\ DatasetIdle
    /\ ModelIdle
    /\ DiffProdIdle
    /\ ShapeIdle
    /\ HopfIdle
    /\ ImageIdle
NextIndex == IndexStep
SpecIndex == InitIndex /\ [][NextIndex]_vars

====
